---- MODULE Spec2Model ----
(***************************************************************************)
(* A model of libusbg (src/src/usbg.c): the in-memory gadget tree, kept in *)
(* sys/queue.h tail queues, and the configfs store it mirrors.             *)
(*                                                                         *)
(* C strings are tuples of character codes, paths are tuples of path       *)
(* segments, and a node is identified by the path of its backing artifact. *)
(* The tail queues are modelled at pointer level (tqh_first, tqh_last,     *)
(* tqe_next, tqe_prev), because INSERT_TAILQ_STRING_ORDER relinks them.    *)
(***************************************************************************)
EXTENDS Integers, Sequences, FiniteSets, TLC

VARIABLES fs,      \* the store: [dirs, files, links]
          st,      \* the usbg_state pointer the caller holds: NULL or the root path
          mem,     \* the heap: [first, last, next, prev, node]
          leaked,  \* malloc'ed blocks that are neither linked, returned nor freed
          last,    \* the last API call: its arguments, result and system calls
          hung,    \* TRUE once a call has not returned: a loop that never ends, a crash
          nops,    \* number of API calls made so far
          loads    \* the trees the successful usbg_init calls built since fs last changed

vars == <<fs, st, mem, leaked, last, hung, nops, loads>>

-----------------------------------------------------------------------------
(* Bounds of the model *)

\* API calls explored per behaviour
MaxOps == 6
\* instance names offered to usbg_create_function: "0", "1", ...
MaxInstances == 2
\* faults injected into one usbg_init
MaxFaults == 1
\* usbg_init and usbg_cleanup calls explored per behaviour
MaxLoads == 3
\* usbg_add_config_function calls explored per behaviour on one config
MaxBinds == 5

-----------------------------------------------------------------------------
(* C strings and paths *)

NULL == <<>>
\* what usbg_get_* "returns" when its TAILQ_FOREACH never ends
HANG == << <<>> >>
UNINIT == << <<>>, <<>> >>

Str_usb_gadget == <<117, 115, 98, 95, 103, 97, 100, 103, 101, 116>>
STRINGS_DIR == <<115, 116, 114, 105, 110, 103, 115>>
CONFIGS_DIR == <<99, 111, 110, 102, 105, 103, 115>>
FUNCTIONS_DIR == <<102, 117, 110, 99, 116, 105, 111, 110, 115>>
Str_UDC == <<85, 68, 67>>
Str_dot == <<46>>
Str_dotdot == <<46, 46>>
Str_nl == <<10>>

function_names ==
  << <<103, 115, 101, 114>>,           \* "gser"
     <<97, 99, 109>>,                  \* "acm"
     <<111, 98, 101, 120>>,            \* "obex"
     <<101, 99, 109>>,                 \* "ecm"
     <<103, 101, 116, 104>>,           \* "geth"
     <<110, 99, 109>>,                 \* "ncm"
     <<101, 101, 109>>,                \* "eem"
     <<114, 110, 100, 105, 115>>,      \* "rndis"
     <<112, 104, 111, 110, 101, 116>> >> \* "phonet"

RECURSIVE strcmp(_, _)
strcmp(a, b) ==
  IF a = <<>> /\ b = <<>> THEN 0
  ELSE IF a = <<>> THEN -1
  ELSE IF b = <<>> THEN 1
  ELSE IF Head(a) < Head(b) THEN -1
  ELSE IF Head(a) > Head(b) THEN 1
  ELSE strcmp(Tail(a), Tail(b))

\* sprintf(p, "%s/%s", dir, name)
Join(dir, name) == Append(dir, name)
Parent(p) == SubSeq(p, 1, Len(p) - 1)
\* strrchr(target, '/') + 1
Basename(p) == p[Len(p)]

\* the path usbg_init builds from configfs_path
RootPath == << Str_usb_gadget >>

\* the attribute files of a gadget in the order usbg_set_gadget_attrs writes
\* them: file name, field of usbg_gadget_attrs, format and width of the field
GadgetAttrs ==
  << [file |-> <<98, 99, 100, 85, 83, 66>>, field |-> "bcdUSB",
      str |-> "0x%04x\n", bits |-> 16],
     [file |-> <<98, 68, 101, 118, 105, 99, 101, 67, 108, 97, 115, 115>>,
      field |-> "bDeviceClass", str |-> "0x%02x\n", bits |-> 8],
     [file |-> <<98, 68, 101, 118, 105, 99, 101, 83, 117, 98, 67, 108, 97, 115, 115>>,
      field |-> "bDeviceSubClass", str |-> "0x%02x\n", bits |-> 8],
     [file |-> <<98, 68, 101, 118, 105, 99, 101, 80, 114, 111, 116, 111, 99, 111, 108>>,
      field |-> "bDeviceProtocol", str |-> "0x%02x\n", bits |-> 8],
     [file |-> <<98, 77, 97, 120, 80, 97, 99, 107, 101, 116, 83, 105, 122, 101, 48>>,
      field |-> "bMaxPacketSize0", str |-> "0x%02x\n", bits |-> 8],
     [file |-> <<105, 100, 86, 101, 110, 100, 111, 114>>, field |-> "idVendor",
      str |-> "0x%04x\n", bits |-> 16],
     [file |-> <<105, 100, 80, 114, 111, 100, 117, 99, 116>>, field |-> "idProduct",
      str |-> "0x%04x\n", bits |-> 16],
     [file |-> <<98, 99, 100, 68, 101, 118, 105, 99, 101>>, field |-> "bcdDevice",
      str |-> "0x%04x\n", bits |-> 16] >>

\* the files usbg_set_config_attrs writes
ConfigAttrs ==
  << [file |-> <<77, 97, 120, 80, 111, 119, 101, 114>>, field |-> "bMaxPower",
      str |-> "%d\n", bits |-> 8],
     [file |-> <<98, 109, 65, 116, 116, 114, 105, 98, 117, 116, 101, 115>>,
      field |-> "bmAttributes", str |-> "0x%02x\n", bits |-> 8] >>

Str_port_num == <<112, 111, 114, 116, 95, 110, 117, 109>>
Str_dev_addr == <<100, 101, 118, 95, 97, 100, 100, 114>>
Str_host_addr == <<104, 111, 115, 116, 95, 97, 100, 100, 114>>
Str_ifname == <<105, 102, 110, 97, 109, 101>>
Str_qmult == <<113, 109, 117, 108, 116>>
Str_serialnumber == <<115, 101, 114, 105, 97, 108, 110, 117, 109, 98, 101, 114>>
Str_manufacturer == <<109, 97, 110, 117, 102, 97, 99, 116, 117, 114, 101, 114>>
Str_product == <<112, 114, 111, 100, 117, 99, 116>>
Str_configuration == <<99, 111, 110, 102, 105, 103, 117, 114, 97, 116, 105, 111, 110>>

\* the files usbg_set_function_attrs writes for a function of the given type:
\* the cases of its switch
FunctionAttrs(type) ==
  IF type \in {0, 1, 2}
    THEN << [file |-> Str_port_num, field |-> "port_num", str |-> "%d\n"] >>
  ELSE IF type \in {3, 4, 5, 6, 7}
    THEN << [file |-> Str_dev_addr, field |-> "dev_addr", str |-> "ether_ntoa"],
            [file |-> Str_host_addr, field |-> "host_addr", str |-> "ether_ntoa"],
            [file |-> Str_ifname, field |-> "ifname", str |-> "%s"],
            [file |-> Str_qmult, field |-> "qmult", str |-> "%d\n"] >>
  ELSE IF type = 8
    THEN << [file |-> Str_ifname, field |-> "ifname", str |-> "%s"] >>
  ELSE << >>

-----------------------------------------------------------------------------
(* The store: a configfs directory tree *)

Entries(f) == f.dirs \cup DOMAIN f.files \cup DOMAIN f.links

Children(f, p) == { q \in Entries(f) : Len(q) = Len(p) + 1 /\ Parent(q) = p }

\* the kernel's text of an unbound gadget's UDC attribute
UdcDefault == Str_nl

\* the text of a gadget attribute nobody has written yet: the value 0
AttrDefault(a) ==
  IF a.bits = 16 THEN <<48, 120, 48, 48, 48, 48, 10>> ELSE <<48, 120, 48, 48, 10>>

\* the attribute files of a new gadget directory p
GadgetAttrFiles(p) ==
  [q \in { Join(p, GadgetAttrs[i].file) : i \in 1..Len(GadgetAttrs) } |->
     AttrDefault(CHOOSE a \in { GadgetAttrs[i] : i \in 1..Len(GadgetAttrs) } :
                   a.file = Basename(q))]

\* what configfs creates along with a directory made under parent directory p
Populate(f, p) ==
  IF Parent(p) = RootPath
    THEN [f EXCEPT !.dirs = @ \cup {p, Join(p, FUNCTIONS_DIR), Join(p, CONFIGS_DIR),
                                    Join(p, STRINGS_DIR)},
                   !.files = GadgetAttrFiles(p) @@ (Join(p, Str_UDC) :> UdcDefault) @@ @]
    ELSE [f EXCEPT !.dirs = @ \cup {p}]

\* mkdir(2); env is "OK" or the errno the environment answers with
mkdir(f, p, env) ==
  IF env # "OK" THEN [ret |-> -1, errno |-> env, fs |-> f]
  ELSE IF p \in Entries(f) THEN [ret |-> -1, errno |-> "EEXIST", fs |-> f]
  ELSE IF Parent(p) \notin f.dirs THEN [ret |-> -1, errno |-> "ENOENT", fs |-> f]
  ELSE [ret |-> 0, errno |-> "OK", fs |-> Populate(f, p)]

\* symlink(2): bpath becomes a link to fpath
symlink(f, fpath, bpath, env) ==
  IF env # "OK" THEN [ret |-> -1, errno |-> env, fs |-> f]
  ELSE IF bpath \in Entries(f) THEN [ret |-> -1, errno |-> "EEXIST", fs |-> f]
  ELSE IF Parent(bpath) \notin f.dirs THEN [ret |-> -1, errno |-> "ENOENT", fs |-> f]
  ELSE [ret |-> 0, errno |-> "OK", fs |-> [f EXCEPT !.links = (bpath :> fpath) @@ @]]

\* what the environment does during one call: io.faults maps
\* <<system call, path>> to the errno injected there, and io.rev tells in which
\* of two orders readdir hands out the entries of a directory
Faulty(io, call, p) == <<call, p>> \in DOMAIN io.faults
Errno(io, call, p) == io.faults[<<call, p>>]

DType(f, q) == IF q \in DOMAIN f.links THEN "DT_LNK"
               ELSE IF q \in f.dirs THEN "DT_DIR" ELSE "DT_REG"

RECURSIVE Enumerate(_)
Enumerate(S) ==
  IF S = {} THEN <<>>
  ELSE LET x == CHOOSE y \in S : TRUE IN <<x>> \o Enumerate(S \ {x})

Reverse(q) == [i \in 1..Len(q) |-> q[Len(q) + 1 - i]]

\* the directory stream of p, as readdir hands it out: ".", ".." and one entry
\* per child, in an order the file system chooses
Dirents(f, p, rev) ==
  LET q == Enumerate(
             { [d_name |-> Str_dot, d_type |-> "DT_DIR"],
               [d_name |-> Str_dotdot, d_type |-> "DT_DIR"] }
             \cup { [d_name |-> Basename(x), d_type |-> DType(f, x)] : x \in Children(f, p) })
  IN IF rev THEN Reverse(q) ELSE q

bindings_select(dent) == IF dent.d_type = "DT_LNK" THEN 1 ELSE 0

file_select(dent) ==
  IF strcmp(dent.d_name, Str_dot) = 0 \/ strcmp(dent.d_name, Str_dotdot) = 0 THEN 0 ELSE 1

\* the names of the entries of q that are in keep, in the order of q
RECURSIVE Select(_, _)
Select(q, keep) ==
  IF q = <<>> THEN <<>>
  ELSE (IF Head(q) \in keep THEN <<Head(q).d_name>> ELSE <<>>) \o Select(Tail(q), keep)

RECURSIVE SortedInsert(_, _)
SortedInsert(x, q) ==
  IF q = <<>> THEN <<x>>
  ELSE IF strcmp(x, Head(q)) <= 0 THEN <<x>> \o q
  ELSE <<Head(q)>> \o SortedInsert(x, Tail(q))

\* scandir without a comparison function: the entries stay in readdir order
Unsorted(q) == q

\* qsort with alphasort as the comparison (C locale: strcmp order)
RECURSIVE alphasort(_)
alphasort(q) == IF q = <<>> THEN <<>> ELSE SortedInsert(Head(q), alphasort(Tail(q)))

-----------------------------------------------------------------------------
(* The heap and its tail queues (sys/queue.h), at pointer level *)

EmptyFn == [x \in {} |-> NULL]

NoFaults == [faults |-> EmptyFn, rev |-> FALSE]

EmptyMem == [first |-> EmptyFn, last |-> EmptyFn, next |-> EmptyFn,
             prev |-> EmptyFn, node |-> EmptyFn]

\* list heads: the gadgets of the state, the functions and configs of gadget g,
\* the bindings of config c (the head lives in the owner's struct)
HeadG == RootPath
HeadF(g) == Join(g, FUNCTIONS_DIR)
HeadC(g) == Join(g, CONFIGS_DIR)
HeadB(c) == c

\* addresses of pointer fields: &head->tqh_first and &node->tqe_next
HeadSlot(h) == <<0, h>>
NextSlot(n) == <<1, n>>

Deref(m, s) == IF s[1] = 0 THEN m.first[s[2]] ELSE m.next[s[2]]

Assign(m, s, v) ==
  IF s[1] = 0 THEN [m EXCEPT !.first[s[2]] = v] ELSE [m EXCEPT !.next[s[2]] = v]

TAILQ_INIT(m, h) ==
  [m EXCEPT !.first = (h :> NULL) @@ @, !.last = (h :> HeadSlot(h)) @@ @]

TAILQ_EMPTY(m, h) == m.first[h] = NULL
TAILQ_FIRST(m, h) == m.first[h]
TAILQ_NEXT(m, n) == m.next[n]

\* *(((struct headname *)(head->tqh_last))->tqh_last)
TAILQ_LAST(m, h) ==
  LET s == m.last[h]
      sp == IF s[1] = 0 THEN m.last[s[2]] ELSE m.prev[s[2]]
  IN Deref(m, sp)

TAILQ_INSERT_HEAD(m, h, e) ==
  LET f == m.first[h]
      m1 == [m EXCEPT !.next = (e :> f) @@ @]
      m2 == IF f # NULL THEN [m1 EXCEPT !.prev[f] = NextSlot(e)]
                        ELSE [m1 EXCEPT !.last[h] = NextSlot(e)]
  IN [m2 EXCEPT !.first[h] = e, !.prev = (e :> HeadSlot(h)) @@ @]

TAILQ_INSERT_TAIL(m, h, e) ==
  LET m1 == [m EXCEPT !.next = (e :> NULL) @@ @, !.prev = (e :> m.last[h]) @@ @]
      m2 == Assign(m1, m.last[h], e)
  IN [m2 EXCEPT !.last[h] = NextSlot(e)]

TAILQ_INSERT_BEFORE(m, l, e) ==
  LET m1 == [m EXCEPT !.prev = (e :> m.prev[l]) @@ @, !.next = (e :> l) @@ @]
      m2 == Assign(m1, m.prev[l], e)
  IN [m2 EXCEPT !.prev[l] = NextSlot(e)]

TAILQ_REMOVE(m, h, e) ==
  LET n == m.next[e]
      m1 == IF n # NULL THEN [m EXCEPT !.prev[n] = m.prev[e]]
                        ELSE [m EXCEPT !.last[h] = m.prev[e]]
  IN Assign(m1, m.prev[e], n)

NameOf(m, n) == m.node[n].name

\* the TAILQ_FOREACH of INSERT_TAILQ_STRING_ORDER: no break follows the
\* TAILQ_INSERT_BEFORE, so the scan goes on from the element it inserted before.
\* seen holds the (cursor, heap) pairs already visited: meeting one again means
\* the loop never ends.
RECURSIVE InsertScan(_, _, _, _)
InsertScan(m, cur, e, seen) ==
  IF cur = NULL THEN [hang |-> FALSE, m |-> m]
  ELSE IF <<cur, m>> \in seen THEN [hang |-> TRUE, m |-> m]
  ELSE IF strcmp(NameOf(m, e), NameOf(m, cur)) > 0
    THEN InsertScan(m, TAILQ_NEXT(m, cur), e, seen \cup {<<cur, m>>})
    ELSE LET m1 == TAILQ_INSERT_BEFORE(m, cur, e)
         IN InsertScan(m1, TAILQ_NEXT(m1, cur), e, seen \cup {<<cur, m>>})

\* the macro without its TAILQ_FOREACH: a node that belongs between two
\* others is not linked at all
InsertWithoutScan(m, h, e) ==
  IF TAILQ_EMPTY(m, h) \/ strcmp(NameOf(m, e), NameOf(m, TAILQ_FIRST(m, h))) < 0
    THEN [hang |-> FALSE, m |-> TAILQ_INSERT_HEAD(m, h, e)]
  ELSE IF strcmp(NameOf(m, e), NameOf(m, TAILQ_LAST(m, h))) > 0
    THEN [hang |-> FALSE, m |-> TAILQ_INSERT_TAIL(m, h, e)]
  ELSE [hang |-> FALSE, m |-> m]

INSERT_TAILQ_STRING_ORDER(m, h, e) ==
  IF TAILQ_EMPTY(m, h) \/ strcmp(NameOf(m, e), NameOf(m, TAILQ_FIRST(m, h))) < 0
    THEN [hang |-> FALSE, m |-> TAILQ_INSERT_HEAD(m, h, e)]
  ELSE IF strcmp(NameOf(m, e), NameOf(m, TAILQ_LAST(m, h))) > 0
    THEN [hang |-> FALSE, m |-> TAILQ_INSERT_TAIL(m, h, e)]
  ELSE InsertScan(m, TAILQ_FIRST(m, h), e, {})

\* malloc of a node and the stores into its fields; free
Alloc(m, n, fields) == [m EXCEPT !.node = (n :> fields) @@ @]

Without(f, S) == [x \in DOMAIN f \ S |-> f[x]]

Free(m, n) ==
  [m EXCEPT !.node = Without(@, {n}), !.next = Without(@, {n}), !.prev = Without(@, {n}),
            !.first = Without(@, {HeadB(n), HeadF(n), HeadC(n)}),
            !.last = Without(@, {HeadB(n), HeadF(n), HeadC(n)})]

\* TAILQ_FOREACH(x, head, field) if (!strcmp(x->name, name)) return x;
RECURSIVE FindByName(_, _, _, _)
FindByName(m, cur, name, seen) ==
  IF cur = NULL THEN NULL
  ELSE IF cur \in seen THEN HANG
  ELSE IF strcmp(NameOf(m, cur), name) = 0 THEN cur
  ELSE FindByName(m, TAILQ_NEXT(m, cur), name, seen \cup {cur})

usbg_get_gadget(m, name) == FindByName(m, TAILQ_FIRST(m, HeadG), name, {})
usbg_get_function(m, g, name) == FindByName(m, TAILQ_FIRST(m, HeadF(g)), name, {})
usbg_get_config(m, g, name) == FindByName(m, TAILQ_FIRST(m, HeadC(g)), name, {})
usbg_get_binding(m, c, name) == FindByName(m, TAILQ_FIRST(m, HeadB(c)), name, {})

RECURSIVE FindByTarget(_, _, _, _)
FindByTarget(m, cur, f, seen) ==
  IF cur = NULL THEN NULL
  ELSE IF cur \in seen THEN HANG
  ELSE IF m.node[cur].target = f THEN cur
  ELSE FindByTarget(m, TAILQ_NEXT(m, cur), f, seen \cup {cur})

usbg_get_link_binding(m, c, f) == FindByTarget(m, TAILQ_FIRST(m, HeadB(c)), f, {})

\* what a caller sees walking usbg_get_first_* / usbg_get_next_*: the nodes in
\* order, ending with HANG when the walk never ends
RECURSIVE Walk(_, _, _)
Walk(m, cur, seen) ==
  IF cur = NULL THEN <<>>
  ELSE IF cur \in seen THEN <<HANG>>
  ELSE <<cur>> \o Walk(m, TAILQ_NEXT(m, cur), seen \cup {cur})

List(m, h) == Walk(m, TAILQ_FIRST(m, h), {})

Names(m, h) == [i \in 1..Len(List(m, h)) |->
                  IF List(m, h)[i] = HANG THEN HANG ELSE NameOf(m, List(m, h)[i])]

-----------------------------------------------------------------------------
(* Error codes and the attribute codec *)

\* a switch without the case for ENOTDIR
TranslateWithoutNotDir(error) ==
  CASE error = "ENOMEM" -> "USBG_ERROR_NO_MEM"
    [] error = "EACCES" -> "USBG_ERROR_NO_ACCESS"
    [] error = "ENOENT" -> "USBG_ERROR_NOT_FOUND"
    [] error \in {"EINVAL", "USBG_ERROR_INVALID_PARAM"} -> "USBG_ERROR_INVALID_PARAM"
    [] error = "EIO" -> "USBG_ERROR_IO"
    [] OTHER -> "USBG_ERROR_OTHER_ERROR"

usbg_translate_error(error) ==
  CASE error = "ENOMEM" -> "USBG_ERROR_NO_MEM"
    [] error = "EACCES" -> "USBG_ERROR_NO_ACCESS"
    [] error \in {"ENOENT", "ENOTDIR"} -> "USBG_ERROR_NOT_FOUND"
    [] error \in {"EINVAL", "USBG_ERROR_INVALID_PARAM"} -> "USBG_ERROR_INVALID_PARAM"
    [] error = "EIO" -> "USBG_ERROR_IO"
    [] OTHER -> "USBG_ERROR_OTHER_ERROR"

\* fgets: the text up to and including the first newline
RECURSIVE FirstLine(_)
FirstLine(t) ==
  IF t = <<>> THEN <<>>
  ELSE IF <<Head(t)>> = Str_nl THEN Str_nl
  ELSE <<Head(t)>> \o FirstLine(Tail(t))

\* if ((p = strchr(buf, '\n')) != NULL) *p = '\0';
RECURSIVE CutAtNewline(_)
CutAtNewline(t) ==
  IF t = <<>> THEN <<>>
  ELSE IF <<Head(t)>> = Str_nl THEN <<>>
  ELSE <<Head(t)>> \o CutAtNewline(Tail(t))

\* buf is the caller's buffer before the call: fgets leaves it alone at end of file
usbg_read_buf(F, io, path, name, file, buf) ==
  LET p == Join(Join(path, name), file)
  IN IF Faulty(io, "fopen", p)
       THEN [ret |-> usbg_translate_error(Errno(io, "fopen", p)), buf |-> buf]
     ELSE IF p \notin DOMAIN F.files
       THEN [ret |-> usbg_translate_error("ENOENT"), buf |-> buf]
     ELSE IF F.files[p] = <<>>
       THEN [ret |-> "USBG_ERROR_IO", buf |-> buf]
     ELSE [ret |-> "USBG_SUCCESS", buf |-> FirstLine(F.files[p])]

usbg_read_string(F, io, path, name, file, buf) ==
  LET r == usbg_read_buf(F, io, path, name, file, buf)
  IN IF r.ret = "USBG_SUCCESS" THEN [ret |-> r.ret, buf |-> CutAtNewline(r.buf)]
     ELSE [ret |-> r.ret, buf |-> <<>>]

\* strtok(name, "."): the first token, NULL when there is none
RECURSIVE SkipDots(_)
SkipDots(t) == IF t # <<>> /\ <<Head(t)>> = Str_dot THEN SkipDots(Tail(t)) ELSE t

RECURSIVE UpToDot(_)
UpToDot(t) ==
  IF t = <<>> \/ <<Head(t)>> = Str_dot THEN <<>> ELSE <<Head(t)>> \o UpToDot(Tail(t))

\* the text before the first dot, empty when the name begins with a dot
FirstSegment(t) == UpToDot(t)

strtok_dot(t) == UpToDot(SkipDots(t))

\* the do/while over function_names; i counts from 0 as in the C table
RECURSIVE LookupFrom(_, _)
LookupFrom(name, i) ==
  IF strcmp(name, function_names[i + 1]) = 0 THEN i
  ELSE IF i + 1 = Len(function_names) THEN -1
  ELSE LookupFrom(name, i + 1)

usbg_lookup_function_type(name) == IF name = NULL THEN -1 ELSE LookupFrom(name, 0)

\* (*select)(dent): the filter is passed to scandir by name
CallSelect(select, dent) ==
  IF select = "bindings_select" THEN bindings_select(dent) ELSE file_select(dent)

\* scandir(3) with a filter and alphasort
scandir(F, io, p, select) ==
  IF Faulty(io, "scandir", p) THEN [n |-> -1, errno |-> Errno(io, "scandir", p), dent |-> <<>>]
  ELSE IF p \notin F.dirs
    THEN [n |-> -1, errno |-> IF p \in Entries(F) THEN "ENOTDIR" ELSE "ENOENT", dent |-> <<>>]
  ELSE LET q == Dirents(F, p, io.rev)
           d == alphasort(Select(q, { x \in { q[i] : i \in 1..Len(q) } :
                                        CallSelect(select, x) # 0 }))
       IN [n |-> Len(d), errno |-> "OK", dent |-> d]

readlink(F, io, p) ==
  IF Faulty(io, "readlink", p) THEN [nmb |-> -1, errno |-> Errno(io, "readlink", p), target |-> <<>>]
  ELSE IF p \notin DOMAIN F.links THEN [nmb |-> -1, errno |-> "EINVAL", target |-> <<>>]
  ELSE [nmb |-> Len(F.links[p]), errno |-> "OK", target |-> F.links[p]]

\* path resolution: "a//b" names the same file as "a/b"
Resolve(p) == SelectSeq(p, LAMBDA seg : seg # <<>>)

\* the digit character of d, lower case as %x and %d print it
DigitChar(d) == IF d < 10 THEN 48 + d ELSE 87 + d

RECURSIVE ToDigits(_, _)
ToDigits(v, base) ==
  IF v < base THEN << DigitChar(v) >>
  ELSE Append(ToDigits(v \div base, base), DigitChar(v % base))

RECURSIVE ZeroPad(_, _)
ZeroPad(t, width) == IF Len(t) >= width THEN t ELSE ZeroPad(<<48>> \o t, width)

\* sprintf(buf, str, value) for the three formats of usbg_write_dec,
\* usbg_write_hex16 and usbg_write_hex8; the values written here are not negative
sprintf_int(str, value) ==
  CASE str = "%d\n" -> ToDigits(value, 10) \o Str_nl
    [] str = "0x%04x\n" -> <<48, 120>> \o ZeroPad(ToDigits(value, 16), 4) \o Str_nl
    [] str = "0x%02x\n" -> <<48, 120>> \o ZeroPad(ToDigits(value, 16), 2) \o Str_nl

\* the value of character c as a digit; 99 when it is none
DigitVal(c) ==
  IF c >= 48 /\ c <= 57 THEN c - 48
  ELSE IF c >= 97 /\ c <= 122 THEN c - 87
  ELSE IF c >= 65 /\ c <= 90 THEN c - 55
  ELSE 99

isspace(c) == c \in {9, 10, 11, 12, 13, 32}

RECURSIVE SkipSpace(_)
SkipSpace(t) == IF t # <<>> /\ isspace(Head(t)) THEN SkipSpace(Tail(t)) ELSE t

RECURSIVE Accumulate(_, _, _)
Accumulate(t, base, acc) ==
  IF t = <<>> \/ DigitVal(Head(t)) >= base THEN acc
  ELSE Accumulate(Tail(t), base, acc * base + DigitVal(Head(t)))

\* strtol(buf, &pos, base): white space, a sign, for base 16 an optional
\* "0x", then digits up to the first character that is none; 0 when there is
\* no digit.  The texts read here are too short to overflow a long.
strtol(buf, base) ==
  LET t == SkipSpace(buf)
      neg == t # <<>> /\ Head(t) = 45
      u == IF t # <<>> /\ Head(t) \in {43, 45} THEN Tail(t) ELSE t
      d == IF base = 16 /\ Len(u) >= 3 /\ u[1] = 48 /\ u[2] \in {120, 88}
              /\ DigitVal(u[3]) < 16
             THEN Tail(Tail(u)) ELSE u
      v == Accumulate(d, base, 0)
  IN IF neg THEN 0 - v ELSE v

\* dest is what *dest held before the call
usbg_read_int(F, io, path, name, file, base, dest) ==
  LET read(r) ==
        IF r.ret = "USBG_SUCCESS" THEN [ret |-> r.ret, dest |-> strtol(r.buf, base)]
        ELSE [ret |-> r.ret, dest |-> dest]
  IN read(usbg_read_buf(F, io, path, name, file, UNINIT))

\* fopen(p, "w"), fputs, fflush: the store after the call, the file the call
\* tried to open and what went to the diagnostic sink
usbg_write_buf(F, io, path, name, file, buf) ==
  LET p == Resolve(Join(Join(path, name), file))
  IN IF Faulty(io, "fopen_w", p) \/ Parent(p) \notin F.dirs \/ p \in F.dirs
       THEN [fs |-> F, calls |-> << <<"fopen", p>> >>, log |-> <<"ERRORNO">>]
     ELSE IF Faulty(io, "fputs", p)
       THEN [fs |-> [F EXCEPT !.files = (p :> <<>>) @@ @],
             calls |-> << <<"fopen", p>> >>, log |-> <<"write error">>]
     ELSE [fs |-> [F EXCEPT !.files = (p :> buf) @@ @],
           calls |-> << <<"fopen", p>> >>, log |-> <<>>]

usbg_write_int(F, io, path, name, file, value, str) ==
  usbg_write_buf(F, io, path, name, file, sprintf_int(str, value))

usbg_write_string(F, io, path, name, file, buf) ==
  usbg_write_buf(F, io, path, name, file, buf)

-----------------------------------------------------------------------------
(* Destruction of the in-memory tree *)

RECURSIVE FreeBindings(_, _)
FreeBindings(m, c) ==
  IF TAILQ_EMPTY(m, HeadB(c)) THEN m
  ELSE LET b == TAILQ_FIRST(m, HeadB(c))
       IN FreeBindings(Free(TAILQ_REMOVE(m, HeadB(c), b), b), c)

usbg_free_config(m, c) == Free(FreeBindings(m, c), c)

RECURSIVE FreeConfigs(_, _)
FreeConfigs(m, g) ==
  IF TAILQ_EMPTY(m, HeadC(g)) THEN m
  ELSE LET c == TAILQ_FIRST(m, HeadC(g))
       IN FreeConfigs(usbg_free_config(TAILQ_REMOVE(m, HeadC(g), c), c), g)

RECURSIVE FreeFunctions(_, _)
FreeFunctions(m, g) ==
  IF TAILQ_EMPTY(m, HeadF(g)) THEN m
  ELSE LET f == TAILQ_FIRST(m, HeadF(g))
       IN FreeFunctions(Free(TAILQ_REMOVE(m, HeadF(g), f), f), g)

\* usbg_free_gadget without its two while loops: only the gadget is freed
FreeGadgetOnly(m, g) == Free(m, g)

usbg_free_gadget(m, g) == Free(FreeFunctions(FreeConfigs(m, g), g), g)

RECURSIVE FreeGadgets(_)
FreeGadgets(m) ==
  IF TAILQ_EMPTY(m, HeadG) THEN m
  ELSE LET g == TAILQ_FIRST(m, HeadG)
       IN FreeGadgets(usbg_free_gadget(TAILQ_REMOVE(m, HeadG, g), g))

\* frees every gadget still linked, then the state itself
usbg_free_state(m) ==
  LET m1 == FreeGadgets(m)
  IN [m1 EXCEPT !.first = Without(@, {HeadG}), !.last = Without(@, {HeadG})]

-----------------------------------------------------------------------------
(* The loader *)

\* a scan that treats a link naming no function as a failure of the load
RECURSIVE BindingsLoopResolving(_, _, _, _, _, _)
BindingsLoopResolving(F, io, acc, c, dent, i) ==
  IF i > Len(dent) THEN acc
  ELSE
    LET m == acc.m
        bpath == Join(m.node[c].path, m.node[c].name)
        b == Join(bpath, dent[i])
        rl == readlink(F, io, b)
        f == usbg_get_function(m, m.node[c].parent, Basename(rl.target))
        step ==
          IF rl.nmb < 0 THEN [ret |-> usbg_translate_error(rl.errno), m |-> m]
          ELSE IF f = NULL THEN [ret |-> "USBG_ERROR_NOT_FOUND", m |-> m]
          ELSE IF Faulty(io, "malloc", b) THEN [ret |-> "USBG_ERROR_NO_MEM", m |-> m]
          ELSE [ret |-> acc.ret,
                m |-> TAILQ_INSERT_TAIL(
                        Alloc(m, b, [kind |-> "binding", name |-> dent[i],
                                     path |-> bpath, target |-> f, parent |-> c]),
                        HeadB(c), b)]
    IN BindingsLoopResolving(F, io, step, c, dent, i + 1)

\* one pass of the for loop of usbg_parse_config_bindings over dent[i..]
RECURSIVE BindingsLoop(_, _, _, _, _, _)
BindingsLoop(F, io, acc, c, dent, i) ==
  IF i > Len(dent) THEN acc
  ELSE
    LET m == acc.m
        bpath == Join(m.node[c].path, m.node[c].name)
        file_name == Join(bpath, dent[i])
        rl == readlink(F, io, file_name)
        g == m.node[c].parent
        f == usbg_get_function(m, g, Basename(rl.target))
        b == file_name
        step ==
          IF rl.nmb >= 0
            THEN IF ~Faulty(io, "malloc", b)
                   THEN [ret |-> acc.ret,
                         m |-> TAILQ_INSERT_TAIL(
                                 Alloc(m, b, [kind |-> "binding", name |-> dent[i],
                                              path |-> bpath, target |-> f, parent |-> c]),
                                 HeadB(c), b)]
                   ELSE [ret |-> "USBG_ERROR_NO_MEM", m |-> m]
            ELSE [ret |-> usbg_translate_error(rl.errno), m |-> m]
    IN BindingsLoop(F, io, step, c, dent, i + 1)

usbg_parse_config_bindings(F, io, m, c) ==
  LET bpath == Join(m.node[c].path, m.node[c].name)
      scanned(sd) ==
        IF sd.n >= 0
          THEN BindingsLoop(F, io, [ret |-> "USBG_SUCCESS", m |-> m], c, sd.dent, 1)
          ELSE [ret |-> usbg_translate_error(sd.errno), m |-> m]
  IN scanned(scandir(F, io, bpath, "bindings_select"))

RECURSIVE ConfigsLoop(_, _, _, _, _, _, _)
ConfigsLoop(F, io, acc, cpath, g, dent, i) ==
  IF i > Len(dent) THEN acc
  ELSE
    LET m == acc.m
        c == Join(cpath, dent[i])
        m1 == TAILQ_INIT(Alloc(m, c, [kind |-> "config", name |-> dent[i],
                                      path |-> cpath, parent |-> g]), HeadB(c))
        parsed(r) ==
          IF r.ret = "USBG_SUCCESS"
            THEN [ret |-> r.ret, m |-> TAILQ_INSERT_TAIL(r.m, HeadC(g), c)]
            ELSE [ret |-> r.ret, m |-> usbg_free_config(r.m, c)]
        step ==
          IF acc.ret = "USBG_SUCCESS"
            THEN IF ~Faulty(io, "malloc", c)
                   THEN parsed(usbg_parse_config_bindings(F, io, m1, c))
                   ELSE [ret |-> "USBG_ERROR_NO_MEM", m |-> m]
            ELSE acc
    IN ConfigsLoop(F, io, step, cpath, g, dent, i + 1)

usbg_parse_configs(F, io, m, path, g) ==
  LET cpath == Join(Join(path, m.node[g].name), CONFIGS_DIR)
      scanned(sd) ==
        IF sd.n >= 0
          THEN ConfigsLoop(F, io, [ret |-> "USBG_SUCCESS", m |-> m], cpath, g, sd.dent, 1)
          ELSE [ret |-> usbg_translate_error(sd.errno), m |-> m]
  IN scanned(scandir(F, io, cpath, "file_select"))

RECURSIVE FunctionsLoop(_, _, _, _, _, _)
FunctionsLoop(io, acc, fpath, g, dent, i) ==
  IF i > Len(dent) THEN acc
  ELSE
    LET m == acc.m
        f == Join(fpath, dent[i])
        step ==
          IF acc.ret = "USBG_SUCCESS"
            THEN IF ~Faulty(io, "malloc", f)
                   THEN [ret |-> acc.ret,
                         m |-> TAILQ_INSERT_TAIL(
                                 Alloc(m, f, [kind |-> "function", name |-> dent[i],
                                              path |-> fpath, parent |-> g,
                                              type |-> usbg_lookup_function_type(
                                                         strtok_dot(dent[i]))]),
                                 HeadF(g), f)]
                   ELSE [ret |-> "USBG_ERROR_NO_MEM", m |-> m]
            ELSE acc
    IN FunctionsLoop(io, step, fpath, g, dent, i + 1)

usbg_parse_functions(F, io, m, path, g) ==
  LET fpath == Join(Join(path, m.node[g].name), FUNCTIONS_DIR)
      scanned(sd) ==
        IF sd.n >= 0
          THEN FunctionsLoop(io, [ret |-> "USBG_SUCCESS", m |-> m], fpath, g, sd.dent, 1)
          ELSE [ret |-> usbg_translate_error(sd.errno), m |-> m]
  IN scanned(scandir(F, io, fpath, "file_select"))

\* g is already allocated; parent is the state
usbg_parse_gadget(F, io, m, path, name, parent, g) ==
  LET rd == usbg_read_string(F, io, path, name, Str_UDC, UNINIT)
      m1 == TAILQ_INIT(TAILQ_INIT(
              Alloc(m, g, [kind |-> "gadget", name |-> name, path |-> path,
                           parent |-> parent, udc |-> rd.buf]),
              HeadF(g)), HeadC(g))
      functions_parsed(pf) ==
        IF pf.ret # "USBG_SUCCESS" THEN pf ELSE usbg_parse_configs(F, io, pf.m, path, g)
  IN IF rd.ret # "USBG_SUCCESS" THEN [ret |-> rd.ret, m |-> m1]
     ELSE functions_parsed(usbg_parse_functions(F, io, m1, path, g))

RECURSIVE GadgetsLoop(_, _, _, _, _, _)
GadgetsLoop(F, io, acc, path, dent, i) ==
  IF i > Len(dent) THEN acc
  ELSE
    LET m == acc.m
        g == Join(path, dent[i])
        parsed(r) ==
          IF r.ret = "USBG_SUCCESS"
            THEN [ret |-> r.ret, m |-> TAILQ_INSERT_TAIL(r.m, HeadG, g)]
            ELSE [ret |-> r.ret, m |-> usbg_free_gadget(r.m, g)]
        step ==
          IF acc.ret = "USBG_SUCCESS"
            THEN IF ~Faulty(io, "malloc", g)
                   THEN parsed(usbg_parse_gadget(F, io, m, path, dent[i], path, g))
                   ELSE [ret |-> "USBG_ERROR_NO_MEM", m |-> m]
            ELSE acc
    IN GadgetsLoop(F, io, step, path, dent, i + 1)

usbg_parse_gadgets(F, io, m, path) ==
  LET scanned(sd) ==
        IF sd.n >= 0
          THEN GadgetsLoop(F, io, [ret |-> "USBG_SUCCESS", m |-> m], path, sd.dent, 1)
          ELSE [ret |-> usbg_translate_error(sd.errno), m |-> m]
  IN scanned(scandir(F, io, path, "file_select"))

usbg_init_state(F, io, m, path) ==
  usbg_parse_gadgets(F, io, TAILQ_INIT(m, HeadG), path)

\* the value of *state after a failed load: it points at freed memory
DANGLING == << <<>>, <<>>, <<>> >>

\* old is what *state held before the call
usbg_init(F, io, m, old) ==
  LET path == RootPath
      initialised(r) ==
        IF r.ret # "USBG_SUCCESS"
          THEN [ret |-> r.ret, st |-> DANGLING, m |-> usbg_free_state(r.m)]
          ELSE [ret |-> r.ret, st |-> path, m |-> r.m]
  IN IF Faulty(io, "opendir", path)
       THEN [ret |-> usbg_translate_error(Errno(io, "opendir", path)), st |-> old, m |-> m]
     ELSE IF path \notin F.dirs
       THEN [ret |-> usbg_translate_error("ENOENT"), st |-> old, m |-> m]
     ELSE IF Faulty(io, "malloc", path)
       THEN [ret |-> "USBG_ERROR_NO_MEM", st |-> NULL, m |-> m]
     ELSE initialised(usbg_init_state(F, io, m, path))

-----------------------------------------------------------------------------
(* Attributes: the typed fields of a gadget, config or function, kept in the
   files of its directory.  A write returns the store it leaves, the files it
   tried to open and what it sent to the diagnostic sink.                    *)

\* the hexadecimal text read as a decimal number
ReadHexAsDec(F, io, path, name, file, dest) ==
  usbg_read_int(F, io, path, name, file, 10, dest)

usbg_read_hex(F, io, path, name, file, dest) ==
  usbg_read_int(F, io, path, name, file, 16, dest)

usbg_read_dec(F, io, path, name, file, dest) ==
  usbg_read_int(F, io, path, name, file, 10, dest)

\* (uint16_t) buf and (uint8_t) buf
Cast(bits, v) == IF bits = 16 THEN v % 65536 ELSE v % 256

\* the reads of usbg_parse_gadget_attrs from the i-th on: the first that fails
\* ends them (goto out).  bcdDevice, the eighth attribute, is never read.
RECURSIVE ParseGadgetAttrsFrom(_, _, _, _, _, _)
ParseGadgetAttrsFrom(F, io, path, name, g_attrs, i) ==
  IF i > 7 THEN [ret |-> "USBG_SUCCESS", g_attrs |-> g_attrs]
  ELSE
    LET a == GadgetAttrs[i]
        read(r) ==
          IF r.ret = "USBG_SUCCESS"
            THEN ParseGadgetAttrsFrom(F, io, path, name,
                   [g_attrs EXCEPT ![a.field] = Cast(a.bits, r.dest)], i + 1)
            ELSE [ret |-> r.ret, g_attrs |-> g_attrs]
    IN read(usbg_read_hex(F, io, path, name, a.file, UNINIT))

usbg_parse_gadget_attrs(F, io, path, name, g_attrs) ==
  ParseGadgetAttrsFrom(F, io, path, name, g_attrs, 1)

\* the status of usbg_parse_gadget_attrs is dropped
usbg_get_gadget_attrs(F, io, m, g, g_attrs) ==
  IF g # NULL /\ g_attrs # NULL
    THEN usbg_parse_gadget_attrs(F, io, m.node[g].path, m.node[g].name, g_attrs).g_attrs
    ELSE NULL

\* %x of one byte
Hex(v) == ToDigits(v, 16)

\* ether_ntoa: "%x:%x:%x:%x:%x:%x"
ether_ntoa(addr) ==
  Hex(addr[1]) \o <<58>> \o Hex(addr[2]) \o <<58>> \o Hex(addr[3]) \o <<58>>
    \o Hex(addr[4]) \o <<58>> \o Hex(addr[5]) \o <<58>> \o Hex(addr[6])

\* the text written for attribute a holding value v
Encode(a, v) ==
  CASE a.str = "%s" -> v
    [] a.str = "ether_ntoa" -> ether_ntoa(v)
    [] OTHER -> sprintf_int(a.str, v)

NoWrites(F) == [fs |-> F, calls |-> <<>>, log |-> <<>>]

\* two writes one after the other
Then(w1, w2) == [fs |-> w2.fs, calls |-> w1.calls \o w2.calls, log |-> w1.log \o w2.log]

\* a setter that gives up at the first write that fails
RECURSIVE WriteAttrsUntilFailure(_, _, _, _, _, _, _)
WriteAttrsUntilFailure(acc, io, path, name, table, attrs, i) ==
  IF i > Len(table) \/ acc.log # <<>> THEN acc
  ELSE
    LET written(w) ==
          WriteAttrsUntilFailure(Then(acc, w), io, path, name, table, attrs, i + 1)
    IN written(usbg_write_buf(acc.fs, io, path, name, table[i].file,
                              Encode(table[i], attrs[table[i].field])))

\* the usbg_write_* calls of a setter, one per entry of the table from the
\* i-th on; none looks at how the one before ended
RECURSIVE WriteAttrsFrom(_, _, _, _, _, _, _)
WriteAttrsFrom(acc, io, path, name, table, attrs, i) ==
  IF i > Len(table) THEN acc
  ELSE
    LET written(w) == WriteAttrsFrom(Then(acc, w), io, path, name, table, attrs, i + 1)
    IN written(usbg_write_buf(acc.fs, io, path, name, table[i].file,
                              Encode(table[i], attrs[table[i].field])))

usbg_set_gadget_attrs(F, io, m, g, g_attrs) ==
  IF g = NULL \/ g_attrs = NULL THEN NoWrites(F)
  ELSE WriteAttrsFrom(NoWrites(F), io, m.node[g].path, m.node[g].name,
                      GadgetAttrs, g_attrs, 1)

usbg_set_config_attrs(F, io, m, c, c_attrs) ==
  IF c = NULL \/ c_attrs = NULL THEN NoWrites(F)
  ELSE WriteAttrsFrom(NoWrites(F), io, m.node[c].path, m.node[c].name,
                      ConfigAttrs, c_attrs, 1)

usbg_set_function_attrs(F, io, m, f, f_attrs) ==
  IF f = NULL \/ f_attrs = NULL THEN NoWrites(F)
  ELSE WriteAttrsFrom(NoWrites(F), io, m.node[f].path, m.node[f].name,
                      FunctionAttrs(m.node[f].type), f_attrs, 1)

LANG_US_ENG == 1033

\* sprintf(path, "%s/%s/%s/0x%x", path, name, STRINGS_DIR, lang)
StringsPath(path, name, lang) ==
  Join(Join(Join(path, name), STRINGS_DIR), <<48, 120>> \o ToDigits(lang, 16))

\* mkdir whose result the caller does not look at
MkdirIgnored(F, io, p) ==
  mkdir(F, p, IF Faulty(io, "mkdir", p) THEN Errno(io, "mkdir", p) ELSE "OK").fs

usbg_set_gadget_strs(F, io, m, g, lang, g_strs) ==
  LET path == StringsPath(m.node[g].path, m.node[g].name, lang)
      made == [fs |-> MkdirIgnored(F, io, path), calls |-> << <<"mkdir", path>> >>,
               log |-> <<>>]
      ser(w) == Then(w, usbg_write_string(w.fs, io, path, <<>>, Str_serialnumber,
                                          g_strs.str_ser))
      mnf(w) == Then(w, usbg_write_string(w.fs, io, path, <<>>, Str_manufacturer,
                                          g_strs.str_mnf))
      prd(w) == Then(w, usbg_write_string(w.fs, io, path, <<>>, Str_product,
                                          g_strs.str_prd))
  IN prd(mnf(ser(made)))

usbg_set_config_string(F, io, m, c, lang, str) ==
  LET path == StringsPath(m.node[c].path, m.node[c].name, lang)
      made == [fs |-> MkdirIgnored(F, io, path), calls |-> << <<"mkdir", path>> >>,
               log |-> <<>>]
  IN Then(made, usbg_write_string(made.fs, io, path, <<>>, Str_configuration, str))

-----------------------------------------------------------------------------
(* The mutators.  Each returns the store and heap it leaves, what it returns
   (ptr or rc), the mkdir/symlink calls it made, how many blocks it leaked
   and whether it entered a loop that never ends.  env is what the environment
   answers: whether malloc succeeds and the errno of the system call.        *)

Outcome(F, m, ptr, rc, calls, leak, hang) ==
  [fs |-> F, mem |-> m, ptr |-> ptr, rc |-> rc, calls |-> calls, leak |-> leak,
   hang |-> hang]

usbg_create_empty_gadget(F, m, s, name, env) ==
  LET gpath == Join(s, name)
      g == gpath
      mk == mkdir(F, gpath, env.sys)
      rd == usbg_read_string(mk.fs, NoFaults, s, name, Str_UDC, UNINIT)
      m1 == TAILQ_INIT(TAILQ_INIT(
              Alloc(m, g, [kind |-> "gadget", name |-> name, path |-> s,
                           parent |-> s, udc |-> rd.buf]),
              HeadC(g)), HeadF(g))
  IN IF ~env.malloc THEN Outcome(F, m, NULL, 0, <<>>, 0, FALSE)
     ELSE IF mk.ret < 0 THEN Outcome(F, m, NULL, 0, << <<"mkdir", gpath>> >>, 0, FALSE)
     ELSE Outcome(mk.fs, m1, g, 0, << <<"mkdir", gpath>> >>, 0, FALSE)

\* what a caller that follows the creation's writes gets: the store and calls
\* of e continued by those of w
Applied(e, w) == [e EXCEPT !.fs = w.fs, !.calls = @ \o w.calls]

usbg_create_gadget_vid_pid(F, m, s, name, idVendor, idProduct, env) ==
  LET dup == usbg_get_gadget(m, name)
      inserted(e, ins) == Outcome(e.fs, ins.m, e.ptr, 0, e.calls, 0, ins.hang)
      product(e, w) ==
        Applied(e, Then(w, usbg_write_int(w.fs, env.io, s, name, GadgetAttrs[7].file,
                                          idProduct, "0x%04x\n")))
      vendor(e) ==
        product(e, usbg_write_int(e.fs, env.io, s, name, GadgetAttrs[6].file,
                                  idVendor, "0x%04x\n"))
      written(e) == inserted(e, INSERT_TAILQ_STRING_ORDER(e.mem, HeadG, e.ptr))
      created(e) == IF e.ptr = NULL THEN e ELSE written(vendor(e))
  IN IF s = NULL THEN Outcome(F, m, NULL, 0, <<>>, 0, FALSE)
     ELSE IF dup = HANG THEN Outcome(F, m, NULL, 0, <<>>, 0, TRUE)
     ELSE IF dup # NULL THEN Outcome(F, m, NULL, 0, <<>>, 0, FALSE)
     ELSE created(usbg_create_empty_gadget(F, m, s, name, env))

usbg_create_gadget(F, m, s, name, g_attrs, g_strs, env) ==
  LET dup == usbg_get_gadget(m, name)
      inserted(e, ins) == Outcome(e.fs, ins.m, e.ptr, 0, e.calls, 0, ins.hang)
      strs(e, w) ==
        IF g_strs # NULL
          THEN Applied(e, Then(w, usbg_set_gadget_strs(w.fs, env.io, e.mem, e.ptr,
                                                       LANG_US_ENG, g_strs)))
          ELSE Applied(e, w)
      attrs(e) ==
        IF g_attrs # NULL
          THEN strs(e, usbg_set_gadget_attrs(e.fs, env.io, e.mem, e.ptr, g_attrs))
          ELSE strs(e, NoWrites(e.fs))
      written(e) == inserted(e, INSERT_TAILQ_STRING_ORDER(e.mem, HeadG, e.ptr))
      created(e) == IF e.ptr = NULL THEN e ELSE written(attrs(e))
  IN IF s = NULL THEN Outcome(F, m, NULL, 0, <<>>, 0, FALSE)
     ELSE IF dup = HANG THEN Outcome(F, m, NULL, 0, <<>>, 0, TRUE)
     ELSE IF dup # NULL THEN Outcome(F, m, NULL, 0, <<>>, 0, FALSE)
     ELSE created(usbg_create_empty_gadget(F, m, s, name, env))

usbg_create_function(F, m, g, type, instance, f_attrs, env) ==
  LET name == function_names[type + 1] \o Str_dot \o instance
      dup == usbg_get_function(m, g, name)
      dir == Join(Join(m.node[g].path, m.node[g].name), FUNCTIONS_DIR)
      fpath == Join(dir, name)
      f == fpath
      mk == mkdir(F, fpath, env.sys)
      m1 == Alloc(m, f, [kind |-> "function", name |-> name, path |-> dir,
                         parent |-> UNINIT, type |-> type])
      inserted(w, ins) ==
        Outcome(w.fs, ins.m, f, 0, << <<"mkdir", fpath>> >> \o w.calls, 0, ins.hang)
      written(w) == inserted(w, INSERT_TAILQ_STRING_ORDER(m1, HeadF(g), f))
  IN IF g = NULL THEN Outcome(F, m, NULL, 0, <<>>, 0, FALSE)
     ELSE IF dup = HANG THEN Outcome(F, m, NULL, 0, <<>>, 0, TRUE)
     ELSE IF dup # NULL THEN Outcome(F, m, NULL, 0, <<>>, 0, FALSE)
     ELSE IF ~env.malloc THEN Outcome(F, m, NULL, 0, <<>>, 0, FALSE)
     ELSE IF mk.ret < 0 THEN Outcome(F, m, NULL, 0, << <<"mkdir", fpath>> >>, 0, FALSE)
     ELSE IF f_attrs # NULL
       THEN written(usbg_set_function_attrs(mk.fs, env.io, m1, f, f_attrs))
     ELSE written(NoWrites(mk.fs))

usbg_create_config(F, m, g, name, c_attrs, c_strs, env) ==
  LET dup == usbg_get_config(m, g, name)
      dir == Join(Join(m.node[g].path, m.node[g].name), CONFIGS_DIR)
      cpath == Join(dir, name)
      c == cpath
      mk == mkdir(F, cpath, env.sys)
      m1 == TAILQ_INIT(Alloc(m, c, [kind |-> "config", name |-> name, path |-> dir,
                                    parent |-> UNINIT]), HeadB(c))
      inserted(w, ins) ==
        Outcome(w.fs, ins.m, c, 0, << <<"mkdir", cpath>> >> \o w.calls, 0, ins.hang)
      strs(w) ==
        IF c_strs # NULL
          THEN inserted(Then(w, usbg_set_config_string(w.fs, env.io, m1, c, LANG_US_ENG,
                                                       c_strs.configuration)),
                        INSERT_TAILQ_STRING_ORDER(m1, HeadC(g), c))
          ELSE inserted(w, INSERT_TAILQ_STRING_ORDER(m1, HeadC(g), c))
  IN IF g = NULL THEN Outcome(F, m, NULL, 0, <<>>, 0, FALSE)
     ELSE IF dup = HANG THEN Outcome(F, m, NULL, 0, <<>>, 0, TRUE)
     ELSE IF dup # NULL THEN Outcome(F, m, NULL, 0, <<>>, 0, FALSE)
     ELSE IF ~env.malloc THEN Outcome(F, m, NULL, 0, <<>>, 0, FALSE)
     ELSE IF mk.ret < 0 THEN Outcome(F, m, NULL, 0, << <<"mkdir", cpath>> >>, 0, FALSE)
     ELSE IF c_attrs # NULL
       THEN strs(usbg_set_config_attrs(mk.fs, env.io, m1, c, c_attrs))
     ELSE strs(NoWrites(mk.fs))

usbg_add_config_function(F, m, c, name, f, env) ==
  LET dupName == usbg_get_binding(m, c, name)
      dupLink == usbg_get_link_binding(m, c, f)
      bpath == Join(Join(m.node[c].path, m.node[c].name), name)
      fpath == Join(m.node[f].path, m.node[f].name)
      b == bpath
      sl == symlink(F, fpath, bpath, env.sys)
      m1 == Alloc(m, b, [kind |-> "binding", name |-> name, path |-> bpath,
                         target |-> f, parent |-> c])
      inserted(ins) ==
        Outcome(sl.fs, ins.m, NULL, 0, << <<"symlink", bpath>> >>, 0, ins.hang)
  IN IF c = NULL \/ f = NULL THEN Outcome(F, m, NULL, -1, <<>>, 0, FALSE)
     ELSE IF dupName = HANG THEN Outcome(F, m, NULL, -1, <<>>, 0, TRUE)
     ELSE IF dupName # NULL THEN Outcome(F, m, NULL, -1, <<>>, 0, FALSE)
     ELSE IF dupLink = HANG THEN Outcome(F, m, NULL, -1, <<>>, 0, TRUE)
     ELSE IF dupLink # NULL THEN Outcome(F, m, NULL, -1, <<>>, 0, FALSE)
     ELSE IF ~env.malloc THEN Outcome(F, m, NULL, -1, <<>>, 0, FALSE)
     ELSE IF sl.ret < 0
       THEN Outcome(F, m, NULL, sl.ret, << <<"symlink", bpath>> >>, 1, FALSE)
     ELSE inserted(INSERT_TAILQ_STRING_ORDER(m1, HeadB(c), b))

\* "/sys/class/udc", a directory outside the configfs store
UdcClassPath == << <<115, 121, 115>>, <<99, 108, 97, 115, 115>>, <<117, 100, 99>> >>

\* sysfs is the directory tree that holds the controllers
usbg_get_udcs(sysfs, io) == scandir(sysfs, io, UdcClassPath, "file_select")

\* strncpy(buf, src, len) read back as a C string: without its terminator when
\* src does not fit
strncpy(src, len) ==
  IF Len(src) < len THEN [text |-> src, terminated |-> TRUE]
  ELSE [text |-> SubSeq(src, 1, len), terminated |-> FALSE]

\* the copy made with one character less than the caller's buffer holds
GetUdcShort(m, g, len) == IF g # NULL THEN strncpy(m.node[g].udc, len - 1) ELSE NULL

usbg_get_gadget_udc(m, g, len) == IF g # NULL THEN strncpy(m.node[g].udc, len) ELSE NULL

\* the two statements that end usbg_enable_gadget and usbg_disable_gadget, in
\* the order of the code: strcpy(g->udc, gudc), then usbg_write_string
StoreUdc(F, m, g, gudc, env, before) ==
  LET w == usbg_write_string(F, env.io, m.node[g].path, m.node[g].name, Str_UDC, gudc)
  IN Outcome(w.fs, [m EXCEPT !.node[g].udc = gudc], NULL, 0,
             before \o << <<"strcpy", g>> >> \o w.calls, 0, FALSE)

\* With udc NULL the controller is the first that usbg_get_udcs lists.  The
\* test is if (!n): when scandir fails n is -1 and udc_list was never set, so
\* udc_list[0]->d_name and the free(udc_list[n]) of while (n--) read through
\* an uninitialized pointer.  env.ub is what the build makes of that: the call
\* never returns (crash), or it goes on with the text it found there.
usbg_enable_gadget(F, m, g, udc, env) ==
  LET listed(sd) ==
        IF sd.n = 0 THEN Outcome(F, m, NULL, 0, << <<"scandir", UdcClassPath>> >>, 0, FALSE)
        ELSE IF sd.n < 0
          THEN IF env.ub.crash
                 THEN Outcome(F, m, NULL, 0, << <<"scandir", UdcClassPath>> >>, 0, TRUE)
                 ELSE StoreUdc(F, m, g, env.ub.text, env, << <<"scandir", UdcClassPath>> >>)
        ELSE StoreUdc(F, m, g, sd.dent[1], env, << <<"scandir", UdcClassPath>> >>)
  IN IF udc = NULL THEN listed(usbg_get_udcs(env.sysfs, env.io))
     ELSE StoreUdc(F, m, g, udc, env, <<>>)

\* disabling by the text of an unbound UDC attribute, a newline
DisableByNewline(F, m, g, env) == StoreUdc(F, m, g, Str_nl, env, <<>>)

usbg_disable_gadget(F, m, g, env) == StoreUdc(F, m, g, <<>>, env, <<>>)

\* a destruction that also deletes what backs the nodes it frees
CleanupWithStore(F, m) ==
  [fs |-> [F EXCEPT !.dirs = @ \ DOMAIN m.node,
                    !.links = [q \in DOMAIN @ \ DOMAIN m.node |-> @[q]]],
   mem |-> EmptyMem, leak |-> Cardinality(DOMAIN usbg_free_state(m).node)]

\* usbg_cleanup: what usbg_free_state cannot reach stays allocated for good.
\* The free helpers call TAILQ_REMOVE and free only, so the store F is
\* returned as it was given.
usbg_cleanup(F, m) ==
  [fs |-> F, mem |-> EmptyMem, leak |-> Cardinality(DOMAIN usbg_free_state(m).node)]

-----------------------------------------------------------------------------
(* Inputs *)

Str(c) == <<c>>

GadgetNames == { <<103, 49>>, <<103, 50>> }          \* "g1", "g2"
ConfigNames == { <<99, 49>>, <<99, 50>> }            \* "c1", "c2"
BindingNames == { <<98, 49>>, <<98, 50>> }           \* "b1", "b2"
\* F_ACM and F_ECM
FunctionTypes == { 1, 3 }
\* "0", "1", ...
Instances == { Str(47 + i) : i \in 1..MaxInstances }

Envs == { [malloc |-> TRUE, sys |-> "OK"], [malloc |-> FALSE, sys |-> "OK"],
          [malloc |-> TRUE, sys |-> "EACCES"] }


EmptyStore == [dirs |-> {RootPath}, files |-> EmptyFn, links |-> EmptyFn]

Nodes(m, kind) == { n \in DOMAIN m.node : m.node[n].kind = kind }

\* the tree as a caller walks it with usbg_get_first_* / usbg_get_next_*:
\* names in traversal order, and for a binding the function it points at
BindingView(m, b) ==
  IF b = HANG THEN HANG ELSE [name |-> NameOf(m, b), target |-> m.node[b].target]

ConfigView(m, c) ==
  IF c = HANG THEN HANG
  ELSE [name |-> NameOf(m, c),
        bindings |-> [i \in 1..Len(List(m, HeadB(c))) |->
                        BindingView(m, List(m, HeadB(c))[i])]]

GadgetView(m, g) ==
  IF g = HANG THEN HANG
  ELSE [name |-> NameOf(m, g),
        functions |-> Names(m, HeadF(g)),
        configs |-> [i \in 1..Len(List(m, HeadC(g))) |->
                       ConfigView(m, List(m, HeadC(g))[i])]]

Tree(m) == [i \in 1..Len(List(m, HeadG)) |-> GadgetView(m, List(m, HeadG)[i])]

-----------------------------------------------------------------------------
(* The state machine *)

\* obj is the object the call is made on, name its name or value argument, f
\* a further argument
Call(op, obj, name, f, env) ==
  [op |-> op, obj |-> obj, name |-> name, f |-> f, env |-> env]

Commit(call, r) ==
  /\ fs' = r.fs
  /\ mem' = r.mem
  /\ leaked' = leaked + r.leak
  /\ hung' = r.hang
  /\ last' = [op |-> call.op, obj |-> call.obj, name |-> call.name, f |-> call.f,
              env |-> call.env, ptr |-> r.ptr, rc |-> r.rc, status |-> "",
              calls |-> r.calls, leak |-> r.leak]
  /\ nops' = nops + 1
  /\ loads' = IF r.fs = fs THEN loads ELSE <<>>
  /\ UNCHANGED st

Ready == st = RootPath /\ ~hung /\ nops < MaxOps

Loaded(F) == usbg_init(F, NoFaults, EmptyMem, NULL)

Returned(F, r) ==
  /\ fs = F
  /\ st = r.st
  /\ mem = r.m
  /\ leaked = 0
  /\ hung = FALSE
  /\ nops = 0
  /\ last = [op |-> "usbg_init", obj |-> NULL, name |-> NULL, f |-> NULL,
             env |-> [malloc |-> TRUE, sys |-> "OK"], ptr |-> NULL, rc |-> 0,
             status |-> r.ret, calls |-> <<>>, leak |-> 0]
  /\ loads = IF r.ret = "USBG_SUCCESS" THEN << Tree(r.m) >> ELSE <<>>

\* the state after usbg_init has loaded store F
InitFrom(F) == Returned(F, Loaded(F))

Init == InitFrom(EmptyStore)

CreateGadget(name, env) ==
  /\ Ready
  /\ Commit(Call("usbg_create_gadget", st, name, NULL, env),
            usbg_create_gadget(fs, mem, st, name, NULL, NULL, env))

CreateFunction(g, type, instance, env) ==
  /\ Ready
  /\ Commit(Call("usbg_create_function", g, function_names[type + 1] \o Str_dot \o instance,
                 NULL, env),
            usbg_create_function(fs, mem, g, type, instance, NULL, env))

CreateConfig(g, name, env) ==
  /\ Ready
  /\ Commit(Call("usbg_create_config", g, name, NULL, env),
            usbg_create_config(fs, mem, g, name, NULL, NULL, env))

AddConfigFunction(c, name, f, env) ==
  /\ Ready
  /\ Commit(Call("usbg_add_config_function", c, name, f, env),
            usbg_add_config_function(fs, mem, c, name, f, env))

Next ==
  \/ \E name \in GadgetNames, env \in Envs : CreateGadget(name, env)
  \/ \E g \in Nodes(mem, "gadget"), type \in FunctionTypes, instance \in Instances,
        env \in Envs : CreateFunction(g, type, instance, env)
  \/ \E g \in Nodes(mem, "gadget"), name \in ConfigNames, env \in Envs :
        CreateConfig(g, name, env)
  \/ \E c \in Nodes(mem, "config"), name \in BindingNames,
        f \in Nodes(mem, "function"), env \in Envs : AddConfigFunction(c, name, f, env)

Spec == Init /\ [][Next]_vars

-----------------------------------------------------------------------------
(* Creations within one gadget: the gadget "g1" exists in the store and was
   loaded; only usbg_create_function and usbg_create_config are called, the
   functions drawn from three types.                                        *)

\* F_SERIAL, F_ACM and F_ECM
OrderTypes == { 0, 1, 3 }

G1 == Join(RootPath, <<103, 49>>)

StoreG1 == mkdir(EmptyStore, G1, "OK").fs

InitOrder == InitFrom(StoreG1)

NextOrder ==
  \/ \E type \in OrderTypes, instance \in Instances, env \in Envs :
        CreateFunction(G1, type, instance, env)
  \/ \E name \in ConfigNames, env \in Envs : CreateConfig(G1, name, env)

SpecOrder == InitOrder /\ [][NextOrder]_vars

-----------------------------------------------------------------------------
(* Bindings within one config: the gadget "g1" with four functions and the
   config "c1" exist in the store and were loaded; only
   usbg_add_config_function is called, in an environment without failures.  *)

FunctionPath(g, type, instance) ==
  Join(HeadF(g), function_names[type + 1] \o Str_dot \o instance)

C1Path == Join(HeadC(G1), <<99, 49>>)

RECURSIVE MkdirAll(_, _)
MkdirAll(F, paths) ==
  IF paths = <<>> THEN F ELSE MkdirAll(mkdir(F, Head(paths), "OK").fs, Tail(paths))

BindFunctions == { FunctionPath(G1, t, <<48 + i>>) : t \in FunctionTypes, i \in 0..1 }

StoreBind == MkdirAll(StoreG1, Enumerate(BindFunctions) \o << C1Path >>)

\* "b0" .. "b4"
BindNames == { <<98, 48 + i>> : i \in 0..4 }

\* here malloc and symlink always succeed
BindEnvs == { [malloc |-> TRUE, sys |-> "OK"] }

InitBind == InitFrom(StoreBind)

NextBind ==
  \E name \in BindNames, f \in BindFunctions, env \in BindEnvs :
     nops < MaxBinds /\ AddConfigFunction(C1Path, name, f, env)

SpecBind == InitBind /\ [][NextBind]_vars

-----------------------------------------------------------------------------
(* Loading: the store holds the gadget "g1" with some functions and configs
   whose links may or may not resolve; usbg_init and usbg_cleanup are called,
   the environment injecting faults and choosing the readdir order.         *)

ACM0 == FunctionPath(G1, 1, <<48>>)
ECM0 == FunctionPath(G1, 3, <<48>>)

LoadFunctionSets == { {}, {ACM0}, {ACM0, ECM0} }

\* a config directory: whether it exists and where each of its links points
LoadConfigs == [present : BOOLEAN, links : [BindingNames -> {ACM0, ECM0}]]

AddConfig(F, c, cfg) ==
  IF ~cfg.present THEN F
  ELSE [F EXCEPT !.dirs = @ \cup {c},
                 !.links = [b \in { Join(c, n) : n \in BindingNames } |->
                              cfg.links[Basename(b)]] @@ @]

RECURSIVE AddConfigs(_, _, _)
AddConfigs(F, names, cfgs) ==
  IF names = {} THEN F
  ELSE LET n == CHOOSE x \in names : TRUE
       IN AddConfigs(AddConfig(F, Join(HeadC(G1), n), cfgs[n]), names \ {n}, cfgs)

LoadStores ==
  { AddConfigs([StoreG1 EXCEPT !.dirs = @ \cup fns], ConfigNames, cfgs) :
      fns \in LoadFunctionSets, cfgs \in [ConfigNames -> LoadConfigs] }

\* where the environment can make a call of usbg_init fail, and with what
FaultPoints(F) ==
  {<<"opendir", RootPath>>, <<"malloc", RootPath>>, <<"scandir", RootPath>>}
    \cup { <<"malloc", g>> : g \in Children(F, RootPath) }
    \cup { <<"scandir", d>> : d \in { x \in F.dirs : Basename(x) \in {FUNCTIONS_DIR, CONFIGS_DIR} } }
    \cup { <<"scandir", c>> : c \in { x \in F.dirs : Len(x) = 4 /\ Parent(x)[3] = CONFIGS_DIR } }
    \cup { <<"malloc", n>> : n \in { x \in F.dirs : Len(x) = 4 } }
    \cup { <<"fopen", p>> : p \in { x \in DOMAIN F.files : Basename(x) = Str_UDC } }
    \cup { <<"readlink", p>> : p \in DOMAIN F.links }
    \cup { <<"malloc", p>> : p \in DOMAIN F.links }

FaultErrno(point) == IF point[1] = "malloc" THEN "ENOMEM" ELSE "EACCES"

\* the sets of at most k fault points
RECURSIVE FaultSets(_, _)
FaultSets(F, k) ==
  IF k = 0 THEN { {} }
  ELSE FaultSets(F, k - 1)
         \cup { Q \cup {p} : Q \in FaultSets(F, k - 1), p \in FaultPoints(F) }

FaultPlans(F) == { [p \in P |-> FaultErrno(p)] : P \in FaultSets(F, MaxFaults) }

InitLoad ==
  /\ fs \in LoadStores
  /\ st = NULL
  /\ mem = EmptyMem
  /\ leaked = 0
  /\ hung = FALSE
  /\ nops = 0
  /\ last = [op |-> "", obj |-> NULL, name |-> NULL, f |-> NULL, env |-> NoFaults,
             ptr |-> NULL, rc |-> 0, status |-> "", calls |-> <<>>, leak |-> 0]
  /\ loads = <<>>

\* usbg_init(configfs_path, &st) by a caller that holds no state
UsbgInit(io) ==
  /\ st = NULL
  /\ nops < MaxLoads
  /\ LET returned(r) ==
           /\ st' = r.st
           /\ mem' = r.m
           /\ last' = [op |-> "usbg_init", obj |-> NULL, name |-> NULL, f |-> NULL,
                       env |-> io, ptr |-> r.st, rc |-> 0, status |-> r.ret,
                       calls |-> <<>>, leak |-> 0]
           /\ loads' = IF r.ret = "USBG_SUCCESS" THEN Append(loads, Tree(r.m)) ELSE loads
     IN returned(usbg_init(fs, io, mem, st))
  /\ nops' = nops + 1
  /\ UNCHANGED <<fs, leaked, hung>>

\* usbg_cleanup(st); the caller drops the pointer
UsbgCleanup ==
  /\ st = RootPath
  /\ nops < MaxLoads
  /\ LET returned(r) ==
           /\ fs' = r.fs
           /\ mem' = r.mem
           /\ leaked' = leaked + r.leak
           /\ last' = [op |-> "usbg_cleanup", obj |-> st, name |-> NULL, f |-> NULL,
                       env |-> NoFaults, ptr |-> NULL, rc |-> 0, status |-> "",
                       calls |-> <<>>, leak |-> r.leak]
     IN returned(usbg_cleanup(fs, mem))
  /\ st' = NULL
  /\ nops' = nops + 1
  /\ UNCHANGED <<hung, loads>>

\* usbg_cleanup(st) followed by usbg_init(path, &st): the process destroys its
\* tree and loads the store again
Restart ==
  /\ LET returned(r) ==
           /\ st' = r.st
           /\ mem' = r.m
           /\ last' = [op |-> "usbg_init", obj |-> NULL, name |-> NULL, f |-> NULL,
                       env |-> NoFaults, ptr |-> r.st, rc |-> 0, status |-> r.ret,
                       calls |-> <<>>, leak |-> 0]
           /\ loads' = IF r.ret = "USBG_SUCCESS" THEN Append(loads, Tree(r.m)) ELSE loads
         cleaned(c) ==
           /\ fs' = c.fs
           /\ leaked' = leaked + c.leak
           /\ returned(usbg_init(c.fs, NoFaults, c.mem, NULL))
     IN cleaned(usbg_cleanup(fs, mem))
  /\ nops' = nops + 1
  /\ UNCHANGED hung

NextLoad ==
  \/ \E rev \in BOOLEAN, faults \in FaultPlans(fs) :
        UsbgInit([faults |-> faults, rev |-> rev])
  \/ UsbgCleanup

SpecLoad == InitLoad /\ [][NextLoad]_vars

-----------------------------------------------------------------------------
(* The controller binding: the gadget "g1" exists in the store, unbound or
   bound to "u1", and was loaded; usbg_enable_gadget and usbg_disable_gadget
   are called while the environment lists none, one or two controllers, or
   has no /sys/class/udc at all, and may fail the write of the UDC file; the
   process may destroy its tree and load the store again.                   *)

\* calls explored per behaviour
MaxUdcOps == 4

\* "u0", "u1"
UdcNames == { <<117, 48>>, <<117, 49>> }

UdcFile(g) == Join(g, Str_UDC)

StoreBound == [StoreG1 EXCEPT !.files[UdcFile(G1)] = <<117, 49, 10>>]

\* a sysfs whose /sys/class/udc holds one link per controller
Sysfs(names) ==
  [dirs |-> {UdcClassPath}, files |-> EmptyFn,
   links |-> [q \in { Join(UdcClassPath, n) : n \in names } |-> q]]

\* no controller driver is loaded: there is no /sys/class/udc
NoSysfs == [dirs |-> {}, files |-> EmptyFn, links |-> EmptyFn]

\* what reading through the uninitialized udc_list may do: end the process, or
\* find some text, here "?"
Crash == [crash |-> TRUE, text |-> <<>>]
Garbage == [crash |-> FALSE, text |-> <<63>>]

\* the environment of a call that does not list the controllers
WriteEnvs ==
  { [io |-> [faults |-> f, rev |-> FALSE], sysfs |-> NoSysfs, ub |-> Crash] :
      f \in { EmptyFn, <<"fopen_w", UdcFile(G1)>> :> "EACCES",
              <<"fputs", UdcFile(G1)>> :> "EIO" } }

\* the environment of a call that lists them
ListEnvs ==
  { [io |-> [faults |-> f, rev |-> r], sysfs |-> y, ub |-> u] :
      f \in { EmptyFn, <<"fopen_w", UdcFile(G1)>> :> "EACCES" },
      r \in BOOLEAN,
      y \in {NoSysfs} \cup { Sysfs(S) : S \in SUBSET UdcNames },
      u \in {Crash, Garbage} }

InitUdc == InitFrom(StoreG1) \/ InitFrom(StoreBound)

ReadyUdc == st = RootPath /\ ~hung /\ nops < MaxUdcOps

EnableGadget(g, udc, env) ==
  /\ ReadyUdc
  /\ Commit(Call("usbg_enable_gadget", g, udc, NULL, env),
            usbg_enable_gadget(fs, mem, g, udc, env))

DisableGadget(g, env) ==
  /\ ReadyUdc
  /\ Commit(Call("usbg_disable_gadget", g, NULL, NULL, env),
            usbg_disable_gadget(fs, mem, g, env))

ReloadUdc ==
  /\ ReadyUdc
  /\ Restart

NextUdc ==
  \/ \E udc \in UdcNames, env \in WriteEnvs : EnableGadget(G1, udc, env)
  \/ \E env \in ListEnvs : EnableGadget(G1, NULL, env)
  \/ \E env \in WriteEnvs : DisableGadget(G1, env)
  \/ ReloadUdc

SpecUdc == InitUdc /\ [][NextUdc]_vars

-----------------------------------------------------------------------------
(* Attributes: the gadget "g1" with the functions "acm.0" and "ecm.0" and the
   config "c1" exists in the store and was loaded; attributes are written and
   read back, and gadgets, functions and configs are created with attributes,
   while the environment may fail one of the writes or reads.                *)

\* calls explored per behaviour
MaxAttrOps == 2

StoreAttr == MkdirAll(StoreG1, << ACM0, ECM0, C1Path >>)

G2 == Join(RootPath, <<103, 50>>)

\* pairs of 16-bit values for idVendor and idProduct: the ends of the range,
\* 0x1d6b with 0x0104, a value with the top bit set, values of one to four digits
WordPairs == { <<0, 65535>>, <<7531, 260>>, <<32768, 32768>>, <<65535, 10>> }

GadgetAttrValues ==
  { [bcdUSB |-> 512, bDeviceClass |-> 2, bDeviceSubClass |-> 0, bDeviceProtocol |-> 1,
     bMaxPacketSize0 |-> 64, idVendor |-> w[1], idProduct |-> w[2], bcdDevice |-> 1] :
      w \in WordPairs }

ConfigAttrValues == { [bMaxPower |-> 120, bmAttributes |-> 128] }

\* usbg_function_attrs is a union: the fields of the function's type
FunctionAttrValues(type) ==
  IF type \in {0, 1, 2} THEN { [port_num |-> 1] }
  ELSE { [dev_addr |-> <<0, 26, 43, 60, 77, 94>>, host_addr |-> <<2, 0, 0, 0, 0, 1>>,
          ifname |-> <<117, 115, 98, 48>>, qmult |-> 5] }

GadgetStrs == [str_ser |-> <<49>>, str_mnf |-> <<70>>, str_prd |-> <<80>>]
ConfigStrs == [configuration |-> <<67, 68, 67>>]

\* what a field of the caller's struct holds before anything is stored in it
Indeterminate == 0 - 1

BlankGadgetAttrs ==
  [bcdUSB |-> Indeterminate, bDeviceClass |-> Indeterminate,
   bDeviceSubClass |-> Indeterminate, bDeviceProtocol |-> Indeterminate,
   bMaxPacketSize0 |-> Indeterminate, idVendor |-> Indeterminate,
   idProduct |-> Indeterminate, bcdDevice |-> Indeterminate]

\* what the caller's structure may hold before usbg_get_gadget_attrs fills it:
\* nothing it has set, or zeroes
CallerGadgetAttrs ==
  { BlankGadgetAttrs,
    [bcdUSB |-> 0, bDeviceClass |-> 0, bDeviceSubClass |-> 0, bDeviceProtocol |-> 0,
     bMaxPacketSize0 |-> 0, idVendor |-> 0, idProduct |-> 0, bcdDevice |-> 0] }

\* the files of table under directory n
AttrFiles(n, table) == { Join(n, table[i].file) : i \in 1..Len(table) }

\* the environment fails no write, or the opening or the writing of one file
WriteFaults(files) ==
  { [faults |-> f, rev |-> FALSE] :
      f \in {EmptyFn} \cup { <<"fopen_w", q>> :> "EACCES" : q \in files }
                      \cup { <<"fputs", q>> :> "EIO" : q \in files } }

\* the environment fails no read, or the opening of one file
ReadFaults(files) ==
  { [faults |-> f, rev |-> FALSE] :
      f \in {EmptyFn} \cup { <<"fopen", q>> :> "EACCES" : q \in files } }

\* the environments of a creation that writes the files
CreateEnvs(files) ==
  { [malloc |-> TRUE, sys |-> "OK", io |-> io] : io \in WriteFaults(files) }
    \cup { [malloc |-> FALSE, sys |-> "OK", io |-> NoFaults],
           [malloc |-> TRUE, sys |-> "EACCES", io |-> NoFaults] }

InitAttr == InitFrom(StoreAttr)

ReadyAttr == st = RootPath /\ ~hung /\ nops < MaxAttrOps

\* a setter or getter returned: w is what it wrote, ptr what it handed back
Wrote(w, ptr) == Outcome(w.fs, mem, ptr, 0, w.calls, 0, FALSE)

SetGadgetAttrs(g, g_attrs, io) ==
  /\ ReadyAttr
  /\ Commit(Call("usbg_set_gadget_attrs", g, g_attrs, NULL, io),
            Wrote(usbg_set_gadget_attrs(fs, io, mem, g, g_attrs), NULL))

\* g_attrs is the caller's structure as it is before the call
GetGadgetAttrs(g, g_attrs, io) ==
  /\ ReadyAttr
  /\ Commit(Call("usbg_get_gadget_attrs", g, NULL, g_attrs, io),
            Wrote(NoWrites(fs), usbg_get_gadget_attrs(fs, io, mem, g, g_attrs)))

SetConfigAttrs(c, c_attrs, io) ==
  /\ ReadyAttr
  /\ Commit(Call("usbg_set_config_attrs", c, c_attrs, NULL, io),
            Wrote(usbg_set_config_attrs(fs, io, mem, c, c_attrs), NULL))

SetFunctionAttrs(f, f_attrs, io) ==
  /\ ReadyAttr
  /\ Commit(Call("usbg_set_function_attrs", f, f_attrs, NULL, io),
            Wrote(usbg_set_function_attrs(fs, io, mem, f, f_attrs), NULL))

CreateGadgetVidPid(name, idVendor, idProduct, env) ==
  /\ ReadyAttr
  /\ Commit(Call("usbg_create_gadget_vid_pid", st, name, <<idVendor, idProduct>>, env),
            usbg_create_gadget_vid_pid(fs, mem, st, name, idVendor, idProduct, env))

CreateGadgetAttrs(name, g_attrs, g_strs, env) ==
  /\ ReadyAttr
  /\ Commit(Call("usbg_create_gadget", st, name, g_attrs, env),
            usbg_create_gadget(fs, mem, st, name, g_attrs, g_strs, env))

CreateFunctionAttrs(g, type, instance, f_attrs, env) ==
  /\ ReadyAttr
  /\ Commit(Call("usbg_create_function", g, function_names[type + 1] \o Str_dot \o instance,
                 f_attrs, env),
            usbg_create_function(fs, mem, g, type, instance, f_attrs, env))

CreateConfigAttrs(g, name, c_attrs, c_strs, env) ==
  /\ ReadyAttr
  /\ Commit(Call("usbg_create_config", g, name, c_attrs, env),
            usbg_create_config(fs, mem, g, name, c_attrs, c_strs, env))

NextAttr ==
  \/ \E g \in Nodes(mem, "gadget"), g_attrs \in GadgetAttrValues :
       \E io \in WriteFaults(AttrFiles(g, GadgetAttrs)) : SetGadgetAttrs(g, g_attrs, io)
  \/ \E g \in Nodes(mem, "gadget"), g_attrs \in CallerGadgetAttrs :
       \E io \in ReadFaults(AttrFiles(g, GadgetAttrs)) : GetGadgetAttrs(g, g_attrs, io)
  \/ \E c \in Nodes(mem, "config"), c_attrs \in ConfigAttrValues :
       \E io \in WriteFaults(AttrFiles(c, ConfigAttrs)) : SetConfigAttrs(c, c_attrs, io)
  \/ \E f \in Nodes(mem, "function") :
       \E f_attrs \in FunctionAttrValues(mem.node[f].type),
          io \in WriteFaults(AttrFiles(f, FunctionAttrs(mem.node[f].type))) :
            SetFunctionAttrs(f, f_attrs, io)
  \/ \E w \in WordPairs,
        env \in CreateEnvs({Join(G2, GadgetAttrs[6].file), Join(G2, GadgetAttrs[7].file)}) :
        CreateGadgetVidPid(Basename(G2), w[1], w[2], env)
  \/ \E g_attrs \in {NULL} \cup { a \in GadgetAttrValues : a.idVendor = a.idProduct },
        g_strs \in {NULL, GadgetStrs}, env \in CreateEnvs(AttrFiles(G2, GadgetAttrs)) :
        CreateGadgetAttrs(Basename(G2), g_attrs, g_strs, env)
  \/ \E g \in Nodes(mem, "gadget"), type \in FunctionTypes :
       \E f_attrs \in {NULL} \cup FunctionAttrValues(type),
          env \in CreateEnvs(AttrFiles(FunctionPath(g, type, <<49>>), FunctionAttrs(type))) :
            CreateFunctionAttrs(g, type, <<49>>, f_attrs, env)
  \/ \E g \in Nodes(mem, "gadget"), c_attrs \in {NULL} \cup ConfigAttrValues,
        c_strs \in {NULL, ConfigStrs} :
       \E env \in CreateEnvs(AttrFiles(Join(HeadC(g), <<99, 50>>), ConfigAttrs)) :
            CreateConfigAttrs(g, <<99, 50>>, c_attrs, c_strs, env)

SpecAttr == InitAttr /\ [][NextAttr]_vars

-----------------------------------------------------------------------------
(* The steps of a load, one at a time: each enumeration routine of usbg_init
   is run on the heap the steps before it leave when nothing fails in them,
   with up to MaxParseFaults faults injected in the step itself; the heap is
   seen as the routine returns it, before its caller frees anything.        *)

\* faults injected in one step
MaxParseFaults == 2

\* the gadget "g1" with both functions and any configs, and "g1" without
\* configs next to a gadget "g2"
ParseStores ==
  { F \in LoadStores : {ACM0, ECM0} \subseteq F.dirs }
    \cup { mkdir(F, G2, "OK").fs :
             F \in { H \in LoadStores : /\ {ACM0, ECM0} \subseteq H.dirs
                                        /\ Children(H, HeadC(G1)) = {} } }

ParsePlans(F) == { [p \in P |-> FaultErrno(p)] : P \in FaultSets(F, MaxParseFaults) }

\* the heap when usbg_parse_gadget calls usbg_parse_functions for "g1"
AtParseFunctions(F) ==
  TAILQ_INIT(TAILQ_INIT(
    Alloc(TAILQ_INIT(EmptyMem, HeadG), G1,
          [kind |-> "gadget", name |-> Basename(G1), path |-> RootPath, parent |-> RootPath,
           udc |-> usbg_read_string(F, NoFaults, RootPath, Basename(G1), Str_UDC, UNINIT).buf]),
    HeadF(G1)), HeadC(G1))

\* the heap when usbg_parse_gadget calls usbg_parse_configs for "g1"
AtParseConfigs(F) == usbg_parse_functions(F, NoFaults, AtParseFunctions(F), RootPath, G1).m

\* the heap when usbg_parse_configs calls usbg_parse_config_bindings for c
AtParseBindings(F, c) ==
  TAILQ_INIT(Alloc(AtParseConfigs(F), c,
                   [kind |-> "config", name |-> Basename(c), path |-> HeadC(G1),
                    parent |-> G1]), HeadB(c))

InitParse ==
  /\ fs \in ParseStores
  /\ st = NULL
  /\ mem = EmptyMem
  /\ leaked = 0
  /\ hung = FALSE
  /\ nops = 0
  /\ last = [op |-> "", obj |-> NULL, name |-> NULL, f |-> NULL, env |-> NoFaults,
             ptr |-> NULL, rc |-> 0, status |-> "", calls |-> <<>>, leak |-> 0]
  /\ loads = <<>>

\* the routine op, run on obj in environment io, returned r
ParseStep(op, obj, io, r) ==
  /\ mem' = r.m
  /\ last' = [op |-> op, obj |-> obj, name |-> NULL, f |-> NULL, env |-> io,
              ptr |-> NULL, rc |-> 0, status |-> r.ret, calls |-> <<>>, leak |-> 0]
  /\ nops' = nops + 1
  /\ UNCHANGED <<fs, st, leaked, hung, loads>>

ParseGadgets(io) ==
  ParseStep("usbg_parse_gadgets", RootPath, io,
            usbg_parse_gadgets(fs, io, TAILQ_INIT(EmptyMem, HeadG), RootPath))

ParseFunctions(io) ==
  ParseStep("usbg_parse_functions", G1, io,
            usbg_parse_functions(fs, io, AtParseFunctions(fs), RootPath, G1))

ParseConfigs(io) ==
  ParseStep("usbg_parse_configs", G1, io,
            usbg_parse_configs(fs, io, AtParseConfigs(fs), RootPath, G1))

ParseConfigBindings(c, io) ==
  ParseStep("usbg_parse_config_bindings", c, io,
            usbg_parse_config_bindings(fs, io, AtParseBindings(fs, c), c))

\* nothing was run yet
Unparsed == nops = 0

NextParse ==
  \/ Unparsed /\ \E rev \in BOOLEAN, faults \in ParsePlans(fs) :
        ParseGadgets([faults |-> faults, rev |-> rev])
  \/ Unparsed /\ \E rev \in BOOLEAN, faults \in ParsePlans(fs) :
        ParseFunctions([faults |-> faults, rev |-> rev])
  \/ Unparsed /\ \E rev \in BOOLEAN, faults \in ParsePlans(fs) :
        ParseConfigs([faults |-> faults, rev |-> rev])
  \/ Unparsed /\ \E c \in Children(fs, HeadC(G1)) \cap fs.dirs :
       \E rev \in BOOLEAN, faults \in ParsePlans(fs) :
          ParseConfigBindings(c, [faults |-> faults, rev |-> rev])

SpecParse == InitParse /\ [][NextParse]_vars

-----------------------------------------------------------------------------
(* Function types across a reload: the gadget "g1" holds function directories
   that were not made through the library; functions of every type are
   created, and the process destroys its tree and loads the store again.    *)

\* calls explored per behaviour
MaxTypeOps == 3

\* "hid.0", "acm", ".acm.0", "...": a type the table lacks, a name without a
\* dot, a name that begins with a dot, a name of dots only
ForeignNames ==
  { <<104, 105, 100, 46, 48>>, <<97, 99, 109>>, <<46, 97, 99, 109, 46, 48>>, <<46, 46, 46>> }

\* "0" and "a.b"
TypeInstances == { <<48>>, <<97, 46, 98>> }

AllTypes == 0..(Len(function_names) - 1)

InitType ==
  \E names \in SUBSET ForeignNames :
     InitFrom(MkdirAll(StoreG1, Enumerate({ Join(HeadF(G1), n) : n \in names })))

ReadyType == st = RootPath /\ ~hung /\ nops < MaxTypeOps

CreateTypedFunction(type, instance) ==
  /\ ReadyType
  /\ Commit(Call("usbg_create_function", G1, function_names[type + 1] \o Str_dot \o instance,
                 NULL, [malloc |-> TRUE, sys |-> "OK"]),
            usbg_create_function(fs, mem, G1, type, instance, NULL,
                                 [malloc |-> TRUE, sys |-> "OK"]))

Reload ==
  /\ ReadyType
  /\ Restart

NextType ==
  \/ \E type \in AllTypes, instance \in TypeInstances : CreateTypedFunction(type, instance)
  \/ Reload

SpecType == InitType /\ [][NextType]_vars

-----------------------------------------------------------------------------
(* Error translation: one system call of a load fails with an error code the
   platform chooses.                                                         *)

\* errno values of opendir, scandir, fopen and readlink: the six the switch of
\* usbg_translate_error names and others it does not
PlatformErrors ==
  {"ENOMEM", "EACCES", "ENOENT", "ENOTDIR", "EINVAL", "EIO",
   "EPERM", "EEXIST", "EBUSY", "ELOOP", "EMFILE", "ENAMETOOLONG"}

\* the system calls of a load of F whose errno is translated
SyscallPoints(F) == { point \in FaultPoints(F) : point[1] # "malloc" }

InitErr ==
  /\ InitLoad
  /\ {ACM0, ECM0} \subseteq fs.dirs

NextErr ==
  \E point \in SyscallPoints(fs), error \in PlatformErrors :
     UsbgInit([faults |-> (point :> error), rev |-> FALSE])

SpecErr == InitErr /\ [][NextErr]_vars

-----------------------------------------------------------------------------
(* Properties *)

Ascending(names) ==
  /\ \A i \in 1..Len(names) : names[i] # HANG
  /\ \A i \in 1..(Len(names) - 1) : strcmp(names[i], names[i + 1]) < 0

Created(op) == last.op = op /\ last.ptr # NULL /\ ~hung

Creations == {"usbg_create_gadget", "usbg_create_function", "usbg_create_config",
              "usbg_add_config_function"}

\* the call recorded in l returned its failure value
Failed(l) == IF l.op = "usbg_add_config_function" THEN l.rc < 0 ELSE l.ptr = NULL

\* the path of the directory or link the creation recorded in l is about
ArtifactOf(l) ==
  CASE l.op = "usbg_create_function" -> Join(HeadF(l.obj), l.name)
    [] l.op = "usbg_create_config" -> Join(HeadC(l.obj), l.name)
    [] OTHER -> Join(l.obj, l.name)

Elements(q) == { q[i] : i \in 1..Len(q) }

\* C1: after every successful usbg_create_function or usbg_create_config on a
\* gadget, the gadget's Functions and its Configs, as walked from get_first by
\* get_next, are each strictly ascending by name.
C1_OrderAfterInsert ==
  (Created("usbg_create_function") \/ Created("usbg_create_config")) =>
    /\ Ascending(Names(mem, HeadF(last.obj)))
    /\ Ascending(Names(mem, HeadC(last.obj)))

\* C2: after a sequence of successful creations (each adds one node to the one
\* the initial load built) the tree in memory has the same gadgets, functions,
\* configs and bindings, in the same order, as a fresh load of the store.
C2_Lockstep ==
  (st = RootPath /\ ~hung /\ Cardinality(DOMAIN mem.node) = nops + 1) =>
    Tree(mem) = Tree(Loaded(fs).m)

\* C3: a creation called with a name that a node of its scope already bears
\* fails, attempts no mkdir or symlink, and leaves memory and store as they were.
C3_DuplicateNameRejected ==
  [][ (nops' = nops + 1 /\ last'.op \in Creations /\ ArtifactOf(last') \in DOMAIN mem.node) =>
        (Failed(last') /\ last'.calls = <<>> /\ mem' = mem /\ fs' = fs) ]_vars

\* the bindings of config c that point at function f
BindingsTo(m, c, f) ==
  { b \in Nodes(m, "binding") : m.node[b].parent = c /\ m.node[b].target = f }

\* C4: usbg_add_config_function with a new binding name on a config that
\* already holds a binding to f fails without calling symlink, and the config
\* still holds exactly one binding to f.
C4_DuplicateLinkRejected ==
  [][ (nops' = nops + 1 /\ last'.op = "usbg_add_config_function"
         /\ ArtifactOf(last') \notin Entries(fs)
         /\ BindingsTo(mem, last'.obj, last'.f) # {}) =>
        (last'.rc < 0 /\ last'.calls = <<>>
           /\ Cardinality(BindingsTo(mem', last'.obj, last'.f)) = 1) ]_vars

\* names to look up: every "<type>.<instance>", every bare type name and ""
ProbeNames ==
  { function_names[t] \o Str_dot \o i : t \in 1..Len(function_names), i \in Instances }
    \cup { function_names[t] : t \in 1..Len(function_names) } \cup { <<>> }

FunctionNamesOf(m, g) ==
  { NameOf(m, n) : n \in { x \in Nodes(m, "function") : m.node[x].path = HeadF(g) } }

\* C5: right after usbg_create_function succeeded with name N, usbg_get_function
\* finds the new node under N and finds nothing under a name no function of the
\* gadget bears.
C5_LookupAfterCreate ==
  Created("usbg_create_function") =>
    /\ usbg_get_function(mem, last.obj, last.name) = last.ptr
    /\ \A M \in ProbeNames \ FunctionNamesOf(mem, last.obj) :
          usbg_get_function(mem, last.obj, M) = NULL

\* the new function went between two others of a list of three or more
C5_Witness ==
  /\ Created("usbg_create_function")
  /\ Len(List(mem, HeadF(last.obj))) >= 3
  /\ \E i \in 2..(Len(List(mem, HeadF(last.obj))) - 1) :
        List(mem, HeadF(last.obj))[i] = last.ptr

\* C6: when the mkdir or symlink of a creation fails, the node the call
\* allocated is released, the call returns failure, and no node without a
\* backing artifact stays allocated.
C6_NodeReleasedOnFailure ==
  (last.op \in Creations /\ last.calls # <<>> /\ Failed(last)) =>
    /\ last.leak = 0
    /\ \A n \in DOMAIN mem.node : n \in Entries(fs)

\* C7: within one config no two bindings point at the same function and no two
\* bindings bear the same name.
C7_BindingsUnique ==
  \A c \in Nodes(mem, "config") :
    \A i, j \in 1..Len(List(mem, HeadB(c))) :
      i # j =>
        /\ BindingView(mem, List(mem, HeadB(c))[i]).name
             # BindingView(mem, List(mem, HeadB(c))[j]).name
        /\ BindingView(mem, List(mem, HeadB(c))[i]).target
             # BindingView(mem, List(mem, HeadB(c))[j]).target

\* C8: every binding of a config of gadget g points at a function in the
\* functions list of g.
C8_TargetInSameGadget ==
  \A g \in Elements(List(mem, HeadG)) \ {HANG} :
    \A c \in Elements(List(mem, HeadC(g))) \ {HANG} :
      \A b \in Elements(List(mem, HeadB(c))) \ {HANG} :
        mem.node[b].target \in Elements(List(mem, HeadF(g)))

\* C9: all successful loads of one unchanged store build the same tree: the
\* same gadgets, functions, configs, bindings and targets in the same order.
C9_LoadIdempotent ==
  \A i, j \in 1..Len(loads) : loads[i] = loads[j]

\* a second load, the directories read in the other order, of a gadget with
\* two functions and two configs of two bindings each
C9_Witness ==
  /\ last.op = "usbg_init" /\ last.env.rev /\ Len(loads) = 2
  /\ Len(loads[2]) = 1
  /\ Len(loads[2][1].functions) = 2
  /\ Len(loads[2][1].configs) = 2
  /\ \A i \in 1..2 : Len(loads[2][1].configs[i].bindings) = 2

\* the links under config directory c whose last segment names no function of
\* gadget g in the store
UnresolvedLinks(F, g, c) ==
  { l \in DOMAIN F.links : Parent(l) = c /\ Join(HeadF(g), Basename(F.links[l])) \notin F.dirs }

ConfigDirs(F, g) == Children(F, HeadC(g)) \cap F.dirs

\* C10: a fault-free load of a store in which some config has a link that names
\* no function reports a failure and builds no binding for that link, while the
\* configs whose links all resolve are in the tree.
C10_UnresolvedLinkFailsConfig ==
  (last.op = "usbg_init" /\ last.env.faults = EmptyFn
     /\ \E c \in ConfigDirs(fs, G1) : UnresolvedLinks(fs, G1, c) # {}) =>
    /\ last.status # "USBG_SUCCESS"
    /\ \A c \in ConfigDirs(fs, G1) :
          IF UnresolvedLinks(fs, G1, c) # {}
            THEN UnresolvedLinks(fs, G1, c) \cap DOMAIN mem.node = {}
            ELSE c \in Elements(List(mem, HeadC(G1)))

\* the closed set of failure statuses
ErrorKinds == {"USBG_ERROR_NO_MEM", "USBG_ERROR_NO_ACCESS", "USBG_ERROR_INVALID_PARAM",
               "USBG_ERROR_NOT_FOUND", "USBG_ERROR_IO", "USBG_ERROR_OTHER_ERROR"}

\* C11: when usbg_init returns a failure status, the status is one of the
\* classified kinds and nothing the load allocated is still allocated: no
\* state, gadget, function, config or binding node and no list head.
C11_FailedLoadReleasesAll ==
  (last.op = "usbg_init" /\ last.status # "USBG_SUCCESS") =>
    /\ last.status \in ErrorKinds
    /\ DOMAIN mem.node = {}
    /\ DOMAIN mem.first = {} /\ DOMAIN mem.last = {}
    /\ DOMAIN mem.next = {} /\ DOMAIN mem.prev = {}

\* the load failed at the malloc of the second binding of the second config,
\* after the gadget, two functions, a whole config and a binding were built
C11_Witness ==
  /\ last.op = "usbg_init" /\ last.status = "USBG_ERROR_NO_MEM"
  /\ {ACM0, ECM0} \subseteq fs.dirs
  /\ Cardinality(ConfigDirs(fs, G1)) = 2
  /\ \E c \in ConfigDirs(fs, G1) :
        /\ \A d \in ConfigDirs(fs, G1) : strcmp(Basename(d), Basename(c)) <= 0
        /\ DOMAIN last.env.faults = { <<"malloc", Join(c, <<98, 50>>)>> }

\* a call of op was made in the step
Called(op) == nops' = nops + 1 /\ last'.op = op

\* buffer sizes a caller reads the controller name with
BufSizes == 1..4

\* C12: after usbg_enable_gadget(g, u) with a non-empty name u has returned,
\* usbg_get_gadget_udc into a buffer that holds u returns exactly u, whether
\* the gadget was unbound or bound before.
C12_EnableThenRead ==
  (last.op = "usbg_enable_gadget" /\ last.name # NULL /\ ~hung) =>
    \A len \in { n \in BufSizes : n > Len(last.name) } :
      usbg_get_gadget_udc(mem, last.obj, len) = [text |-> last.name, terminated |-> TRUE]

\* the gadget was enabled with "u0", the write not failed, and "u0" is read
\* back into a buffer of three characters
C12_Witness ==
  /\ last.op = "usbg_enable_gadget" /\ last.name = <<117, 48>> /\ nops = 1
  /\ last.env.io.faults = EmptyFn
  /\ fs.files[UdcFile(G1)] = <<117, 48>>
  /\ usbg_get_gadget_udc(mem, G1, 3).text = <<117, 48>>

\* the controller field of gadget g as a load of store F decodes it
UdcField(F, g) == usbg_read_string(F, NoFaults, Parent(g), Basename(g), Str_UDC, UNINIT).buf

Available(env) ==
  IF usbg_get_udcs(env.sysfs, env.io).n > 0
    THEN usbg_get_udcs(env.sysfs, env.io).dent ELSE <<>>

\* C14: usbg_enable_gadget without a controller name binds the gadget to the
\* first controller of the enumeration; when the enumeration yields none, the
\* call returns having written nothing and changed nothing.
C14_EnableFirstController ==
  [][ (Called("usbg_enable_gadget") /\ last'.name = NULL) =>
        IF Available(last'.env) # <<>>
          THEN ~hung' /\ mem'.node[last'.obj].udc = Available(last'.env)[1]
          ELSE ~hung' /\ mem' = mem /\ fs' = fs
                 /\ \A i \in DOMAIN last'.calls : last'.calls[i][1] # "fopen" ]_vars

\* C15: in usbg_enable_gadget and usbg_disable_gadget the gadget's udc field in
\* memory is written after the UDC file of the store, and so only takes a value
\* the file has taken.
C15_MemoryAfterStore ==
  [][ (Called("usbg_enable_gadget") \/ Called("usbg_disable_gadget")) =>
        /\ \A i \in DOMAIN last'.calls :
             last'.calls[i][1] = "strcpy" =>
               \E j \in 1..(i - 1) : last'.calls[j] = <<"fopen", UdcFile(last'.obj)>>
        /\ mem'.node[last'.obj].udc # mem.node[last'.obj].udc =>
             fs'.files[UdcFile(last'.obj)] = mem'.node[last'.obj].udc ]_vars

\* C16: usbg_get_gadget_attrs, its reads not failed, right after idVendor = v
\* and idProduct = p were written to the gadget by usbg_set_gadget_attrs or by
\* usbg_create_gadget_vid_pid, every write having succeeded, yields
\* idVendor = v and idProduct = p.
C16_IdRoundTrip ==
  [][ (Called("usbg_get_gadget_attrs") /\ last'.env.faults = EmptyFn) =>
        /\ (last.op = "usbg_set_gadget_attrs" /\ last.obj = last'.obj
              /\ last.env.faults = EmptyFn)
             => (last'.ptr.idVendor = last.name.idVendor
                   /\ last'.ptr.idProduct = last.name.idProduct)
        /\ (last.op = "usbg_create_gadget_vid_pid" /\ last.ptr = last'.obj
              /\ last.env.io.faults = EmptyFn)
             => (last'.ptr.idVendor = last.f[1] /\ last'.ptr.idProduct = last.f[2]) ]_vars

\* 0x1d6b and 0x0104 were written by usbg_set_gadget_attrs and read back
C16_Witness ==
  /\ last.op = "usbg_get_gadget_attrs" /\ nops = 2 /\ last.env.faults = EmptyFn
  /\ fs.files[Join(G1, GadgetAttrs[6].file)] = <<48, 120, 49, 100, 54, 98, 10>>
  /\ fs.files[Join(G1, GadgetAttrs[7].file)] = <<48, 120, 48, 49, 48, 52, 10>>
  /\ last.ptr.idVendor = 7531 /\ last.ptr.idProduct = 260

Setters == {"usbg_set_gadget_attrs", "usbg_set_config_attrs", "usbg_set_function_attrs"}

\* the attribute table the call recorded in l writes, on a node of heap m
TableOf(l, m) ==
  CASE l.op \in {"usbg_set_gadget_attrs", "usbg_create_gadget"} -> GadgetAttrs
    [] l.op \in {"usbg_set_config_attrs", "usbg_create_config"} -> ConfigAttrs
    [] l.op = "usbg_set_function_attrs" -> FunctionAttrs(m.node[l.obj].type)
    [] l.op = "usbg_create_function" -> FunctionAttrs(m.node[l.ptr].type)

\* the list the creation recorded in l inserts into
HeadOf(l) ==
  CASE l.op = "usbg_create_function" -> HeadF(l.obj)
    [] l.op = "usbg_create_config" -> HeadC(l.obj)
    [] OTHER -> HeadG

\* the writes of table on directory n with values attrs went from store F to
\* store Fp as best effort: a file is left as it was when it could not be
\* opened and holds the encoded value when its write was not failed
BestEffort(F, Fp, io, n, table, attrs) ==
  \A i \in 1..Len(table) :
    IF Faulty(io, "fopen_w", Join(n, table[i].file))
      THEN IF Join(n, table[i].file) \in DOMAIN F.files
             THEN Fp.files[Join(n, table[i].file)] = F.files[Join(n, table[i].file)]
             ELSE Join(n, table[i].file) \notin DOMAIN Fp.files
    ELSE IF Faulty(io, "fputs", Join(n, table[i].file)) THEN TRUE
    ELSE Fp.files[Join(n, table[i].file)] = Encode(table[i], attrs[table[i].field])

\* the files the calls opened, in order
Opened(calls) == SelectSeq(calls, LAMBDA e : e[1] = "fopen")

\* C17: a setter of several attributes tries the write of every field, in
\* order, whatever became of the writes before it, and leaves each field whose
\* write did not fail with the new value and each field that could not be
\* opened as it was; a creation that applies attributes returns the new node,
\* inserted in its list, also when a write of an attribute fails.
C17_BestEffortWrites ==
  [][ /\ (nops' = nops + 1 /\ last'.op \in Setters) =>
           /\ last'.calls = [i \in 1..Len(TableOf(last', mem)) |->
                               <<"fopen", Join(last'.obj, TableOf(last', mem)[i].file)>>]
           /\ BestEffort(fs, fs', last'.env, last'.obj, TableOf(last', mem), last'.name)
           /\ mem' = mem
      /\ (nops' = nops + 1
            /\ last'.op \in {"usbg_create_gadget", "usbg_create_function", "usbg_create_config"}
            /\ last'.f # NULL /\ last'.env.malloc /\ last'.env.sys = "OK"
            /\ ArtifactOf(last') \notin Entries(fs)) =>
           /\ last'.ptr = ArtifactOf(last')
           /\ last'.ptr \in Elements(List(mem', HeadOf(last')))
           /\ SubSeq(Opened(last'.calls), 1, Len(TableOf(last', mem'))) =
                [i \in 1..Len(TableOf(last', mem')) |->
                   <<"fopen", Join(last'.ptr, TableOf(last', mem')[i].file)>>]
           /\ BestEffort(mkdir(fs, last'.ptr, "OK").fs, fs', last'.env.io, last'.ptr,
                         TableOf(last', mem'), last'.f) ]_vars

\* usbg_set_gadget_attrs could not open idVendor: bcdUSB before it and
\* idProduct after it hold the new values, idVendor the old one
C17_Witness ==
  /\ last.op = "usbg_set_gadget_attrs" /\ nops = 1
  /\ DOMAIN last.env.faults = { <<"fopen_w", Join(G1, GadgetAttrs[6].file)>> }
  /\ last.name.idVendor = 7531
  /\ fs.files[Join(G1, GadgetAttrs[1].file)] = <<48, 120, 48, 50, 48, 48, 10>>
  /\ fs.files[Join(G1, GadgetAttrs[6].file)] = <<48, 120, 48, 48, 48, 48, 10>>
  /\ fs.files[Join(G1, GadgetAttrs[7].file)] = <<48, 120, 48, 49, 48, 52, 10>>

\* C18: usbg_cleanup of a loaded tree leaves the store as it was: no
\* directory, file or symbolic link is removed, added or rewritten, and no
\* system call on the store is made.
C18_CleanupKeepsStore ==
  [][ Called("usbg_cleanup") => (fs' = fs /\ last'.calls = <<>>) ]_vars

\* a tree with a gadget, a function, a configuration and a binding was
\* destroyed and all four are still in the store
C18_Witness ==
  /\ last.op = "usbg_cleanup" /\ mem = EmptyMem /\ loads # <<>>
  /\ \E g \in fs.dirs : \E f, c \in fs.dirs : \E b \in DOMAIN fs.links :
       /\ Parent(g) = RootPath
       /\ Parent(f) = HeadF(g) /\ Parent(c) = HeadC(g) /\ Parent(b) = c

\* the three-way rule on the sequence q of nodes of heap m: e at the head if q
\* is empty or e's name sorts before the first, at the tail if it sorts after
\* the last, else immediately before the first element that does not sort
\* before it
PlaceByRule(m, e, q) ==
  IF q = <<>> \/ strcmp(NameOf(m, e), NameOf(m, q[1])) < 0 THEN <<e>> \o q
  ELSE IF strcmp(NameOf(m, e), NameOf(m, q[Len(q)])) > 0 THEN q \o <<e>>
  ELSE LET i == CHOOSE k \in 1..Len(q) :
                  /\ strcmp(NameOf(m, q[k]), NameOf(m, e)) >= 0
                  /\ \A j \in 1..(k - 1) : strcmp(NameOf(m, q[j]), NameOf(m, e)) < 0
       IN SubSeq(q, 1, i - 1) \o <<e>> \o SubSeq(q, i, Len(q))

\* C19: a usbg_create_function or usbg_create_config that returns the new node
\* leaves the list it inserted into as the list before the call plus the new
\* node, placed by the three-way rule, every earlier element kept in its
\* earlier relative order.
C19_InsertKeepsElements ==
  [][ (/\ nops' = nops + 1
       /\ last'.op \in {"usbg_create_function", "usbg_create_config"}
       /\ last'.ptr # NULL /\ ~hung'
       /\ HANG \notin Elements(List(mem, HeadOf(last')))) =>
        List(mem', HeadOf(last')) = PlaceByRule(mem', last'.ptr, List(mem, HeadOf(last'))) ]_vars

\* where a fault makes the load of the bindings of a config of gadget g fail:
\* the scandir of the config's directory, the readlink of a link in it, the
\* malloc of the binding for the link
BindingLoadPoints(F, g) ==
  { <<"scandir", c>> : c \in ConfigDirs(F, g) }
    \cup { <<call, l>> : call \in {"readlink", "malloc"},
                         l \in { x \in DOMAIN F.links : Parent(x) \in ConfigDirs(F, g) } }

\* every link under a config of g has its binding in the tree, with the
\* function its last segment names as target, or no target when there is none
BindingsBuilt(F, m, g) ==
  \A c \in ConfigDirs(F, g) : \A l \in DOMAIN F.links :
    Parent(l) = c =>
      /\ l \in Elements(List(m, HeadB(c)))
      /\ m.node[l].target =
           IF l \in UnresolvedLinks(F, g, c) THEN NULL
           ELSE Join(HeadF(g), Basename(F.links[l]))

\* C20 as stated: a link that names no function of the gadget gets a binding
\* with no target and the load goes on to success; of the faults in the load of
\* a config's bindings, the failure of readlink, and only it, makes the load
\* fail, with a classified status.
C20_OnlyReadlinkFails ==
  last.op = "usbg_init" =>
    /\ last.env.faults = EmptyFn =>
         (last.status = "USBG_SUCCESS" /\ BindingsBuilt(fs, mem, G1))
    /\ \A point \in DOMAIN last.env.faults \cap BindingLoadPoints(fs, G1) :
         IF point[1] = "readlink"
           THEN last.status \in ErrorKinds
           ELSE last.status = "USBG_SUCCESS"

\* C20 amended: a link that names no function of the gadget gets a binding
\* with no target and the load goes on to success; when the only faults are in
\* the load of the bindings of the gadget's configs, a failed readlink, a failed
\* scandir of a config's directory or a failed malloc of a binding, the load
\* fails with the classified status of one of them.
C20_BindingLoadFailures ==
  last.op = "usbg_init" =>
    /\ last.status = "USBG_SUCCESS" => BindingsBuilt(fs, mem, G1)
    /\ last.env.faults = EmptyFn => last.status = "USBG_SUCCESS"
    /\ (DOMAIN last.env.faults # {}
          /\ DOMAIN last.env.faults \subseteq BindingLoadPoints(fs, G1)) =>
         /\ last.status \in ErrorKinds
         /\ last.status \in { usbg_translate_error(last.env.faults[point]) :
                                point \in DOMAIN last.env.faults }

\* a load with no fault succeeded on a store with both functions in which a
\* config has a resolving link and a link that names no function: the one has
\* its function as target, the other none
C20_Witness ==
  /\ last.op = "usbg_init" /\ last.status = "USBG_SUCCESS" /\ last.env.faults = EmptyFn
  /\ \E c \in ConfigDirs(fs, G1) : \E l, k \in DOMAIN fs.links :
       /\ Parent(l) = c /\ Parent(k) = c
       /\ l \in UnresolvedLinks(fs, G1, c) /\ k \notin UnresolvedLinks(fs, G1, c)
       /\ mem.node[l].target = NULL /\ mem.node[k].target = ACM0

\* the first status of the sequence that is a failure, success when none is
FirstFailure(statuses) ==
  IF \A i \in 1..Len(statuses) : statuses[i] = "USBG_SUCCESS" THEN "USBG_SUCCESS"
  ELSE statuses[CHOOSE i \in 1..Len(statuses) :
                  /\ statuses[i] # "USBG_SUCCESS"
                  /\ \A j \in 1..(i - 1) : statuses[j] = "USBG_SUCCESS"]

\* the directory the routine op enumerates for obj, and the filter it uses
ListDir(op, obj) ==
  CASE op = "usbg_parse_gadgets" -> obj
    [] op = "usbg_parse_functions" -> HeadF(obj)
    [] op = "usbg_parse_configs" -> HeadC(obj)
    [] op = "usbg_parse_config_bindings" -> obj

SelectOf(op) == IF op = "usbg_parse_config_bindings" THEN "bindings_select" ELSE "file_select"

\* the entries the routine op of obj fetched from store F, in list order
Fetched(F, op, obj) ==
  [i \in 1..scandir(F, NoFaults, ListDir(op, obj), SelectOf(op)).n |->
     Join(ListDir(op, obj), scandir(F, NoFaults, ListDir(op, obj), SelectOf(op)).dent[i])]

\* the status of the step for entry e of the routine op, and of the routine op
\* for obj, when each reports the first failure it meets in environment io
RECURSIVE EntryStatus(_, _, _, _), ListStatus(_, _, _, _)
EntryStatus(F, io, op, e) ==
  CASE op = "usbg_parse_config_bindings" ->
         IF Faulty(io, "readlink", e) THEN usbg_translate_error(Errno(io, "readlink", e))
         ELSE IF Faulty(io, "malloc", e) THEN "USBG_ERROR_NO_MEM"
         ELSE "USBG_SUCCESS"
    [] op = "usbg_parse_functions" ->
         IF Faulty(io, "malloc", e) THEN "USBG_ERROR_NO_MEM" ELSE "USBG_SUCCESS"
    [] op = "usbg_parse_configs" ->
         IF Faulty(io, "malloc", e) THEN "USBG_ERROR_NO_MEM"
         ELSE ListStatus(F, io, "usbg_parse_config_bindings", e)
    [] op = "usbg_parse_gadgets" ->
         FirstFailure(<< IF Faulty(io, "malloc", e) THEN "USBG_ERROR_NO_MEM"
                         ELSE "USBG_SUCCESS",
                         usbg_read_string(F, io, Parent(e), Basename(e), Str_UDC, UNINIT).ret,
                         ListStatus(F, io, "usbg_parse_functions", e),
                         ListStatus(F, io, "usbg_parse_configs", e) >>)

ListStatus(F, io, op, obj) ==
  IF Faulty(io, "scandir", ListDir(op, obj))
    THEN usbg_translate_error(Errno(io, "scandir", ListDir(op, obj)))
    ELSE FirstFailure([i \in 1..Len(Fetched(F, op, obj)) |->
                         EntryStatus(F, io, op, Fetched(F, op, obj)[i])])

ParseOps == {"usbg_parse_gadgets", "usbg_parse_functions", "usbg_parse_configs",
             "usbg_parse_config_bindings"}

\* every fetched entry whose own step meets no failure was constructed
LaterSiblingsBuilt ==
  \A i \in 1..Len(Fetched(fs, last.op, last.obj)) :
    EntryStatus(fs, last.env, last.op, Fetched(fs, last.op, last.obj)[i]) = "USBG_SUCCESS"
      => Fetched(fs, last.op, last.obj)[i] \in DOMAIN mem.node

\* the routine returned the status of the first failure in list order
FirstFailureReturned == last.status = ListStatus(fs, last.env, last.op, last.obj)

\* C21: when the enumeration of a load routine (gadgets, functions, configs,
\* bindings) was fetched and the step of an entry fails, the entries after it
\* in the list are still constructed, and the routine returns the status of
\* the first failure in list order, not of a later one.
C21_FirstFailureSiblingsProceed ==
  (last.op \in ParseOps /\ ~Faulty(last.env, "scandir", ListDir(last.op, last.obj))) =>
    (LaterSiblingsBuilt /\ FirstFailureReturned)

\* the index of name in the table of type names, counted from 0; -1 when the
\* table does not hold it
TableIndex(name) ==
  IF \E i \in 1..Len(function_names) : function_names[i] = name
    THEN (CHOOSE i \in 1..Len(function_names) : function_names[i] = name) - 1
    ELSE 0 - 1

\* the dot-delimited segments of t, empty ones included
RECURSIVE Segments(_)
Segments(t) ==
  IF \A i \in 1..Len(t) : <<t[i]>> # Str_dot THEN <<t>>
  ELSE LET k == CHOOSE i \in 1..Len(t) :
                  <<t[i]>> = Str_dot /\ \A j \in 1..(i - 1) : <<t[j]>> # Str_dot
       IN <<SubSeq(t, 1, k - 1)>> \o Segments(SubSeq(t, k + 1, Len(t)))

\* the first segment of t that is not empty, NULL when all are
FirstNonEmptySegment(t) ==
  IF SelectSeq(Segments(t), LAMBDA seg : seg # <<>>) = <<>> THEN NULL
  ELSE Head(SelectSeq(Segments(t), LAMBDA seg : seg # <<>>))

\* the function directories of gadget g in store F
FunctionDirs(F, g) == Children(F, HeadF(g)) \cap F.dirs

\* a reload succeeded, every function directory is a function of the new
\* tree, and a function that was in the tree before with a type of the table
\* and the name the library gives that type has the same type after
ReloadKeepsTypes ==
  /\ last'.status = "USBG_SUCCESS"
  /\ \A d \in FunctionDirs(fs, G1) :
       /\ d \in Elements(List(mem', HeadF(G1)))
       /\ (d \in DOMAIN mem.node /\ mem.node[d].type \in AllTypes
             /\ \E instance \in TypeInstances :
                  Basename(d) = function_names[mem.node[d].type + 1] \o Str_dot \o instance)
            => mem'.node[d].type = mem.node[d].type

\* C22 as stated: a load gives each function the index in the type-name table
\* of the text before the first dot of its name, -1 when the table does not
\* hold it, and does not fail for that; a function created with type t and any
\* instance name has type t after the store is loaded again.
C22_TypeOfFirstSegment ==
  [][ Called("usbg_init") =>
        /\ ReloadKeepsTypes
        /\ \A d \in FunctionDirs(fs, G1) :
             mem'.node[d].type = TableIndex(FirstSegment(Basename(d))) ]_vars

\* C22 amended: a load gives each function the index in the type-name table of
\* the first non-empty dot-delimited segment of its name (dots at the start of
\* the name are skipped), -1 when the table does not hold it or the name has no
\* such segment, and does not fail for that; a function created with type t and
\* any instance name has type t after the store is loaded again.
C22_TypeOfFirstToken ==
  [][ Called("usbg_init") =>
        /\ ReloadKeepsTypes
        /\ \A d \in FunctionDirs(fs, G1) :
             mem'.node[d].type = TableIndex(FirstNonEmptySegment(Basename(d))) ]_vars

\* after a reload "hid.0" has the unidentified type, ".acm.0" the type of
\* "acm", and the created "rndis.a.b" the type it was created with
C22_Witness ==
  /\ last.op = "usbg_init" /\ nops = 2 /\ last.status = "USBG_SUCCESS"
  /\ Join(HeadF(G1), <<104, 105, 100, 46, 48>>) \in DOMAIN mem.node
  /\ mem.node[Join(HeadF(G1), <<104, 105, 100, 46, 48>>)].type = 0 - 1
  /\ Join(HeadF(G1), <<46, 97, 99, 109, 46, 48>>) \in DOMAIN mem.node
  /\ mem.node[Join(HeadF(G1), <<46, 97, 99, 109, 46, 48>>)].type = 1
  /\ FunctionPath(G1, 7, <<97, 46, 98>>) \in DOMAIN mem.node
  /\ mem.node[FunctionPath(G1, 7, <<97, 46, 98>>)].type = 7

\* the kind the taxonomy gives a platform error code
KindOf(error) ==
  IF error = "ENOMEM" THEN "USBG_ERROR_NO_MEM"
  ELSE IF error = "EACCES" THEN "USBG_ERROR_NO_ACCESS"
  ELSE IF error = "ENOENT" \/ error = "ENOTDIR" THEN "USBG_ERROR_NOT_FOUND"
  ELSE IF error = "EINVAL" THEN "USBG_ERROR_INVALID_PARAM"
  ELSE IF error = "EIO" THEN "USBG_ERROR_IO"
  ELSE "USBG_ERROR_OTHER_ERROR"

\* C23: whatever error code a system call of the load fails with, the status
\* the load returns is a kind of the closed taxonomy: No-Memory for ENOMEM,
\* No-Access for EACCES, Not-Found for ENOENT and ENOTDIR, Invalid-Parameter
\* for EINVAL, I/O for EIO and Other for every other code.
C23_TranslateTotal ==
  (last.op = "usbg_init" /\ DOMAIN last.env.faults # {}) =>
    /\ last.status \in ErrorKinds
    /\ \A point \in DOMAIN last.env.faults :
         last.status = KindOf(last.env.faults[point])

\* the readlink of a binding failed with ELOOP, a code the switch does not
\* name, and the load returned Other
C23_Witness ==
  /\ last.op = "usbg_init" /\ last.status = "USBG_ERROR_OTHER_ERROR"
  /\ \E l \in DOMAIN fs.links : last.env.faults = (<<"readlink", l>> :> "ELOOP")

\* C24: usbg_get_gadget_attrs, its reads not failed, right after
\* usbg_set_gadget_attrs wrote the eight attributes of the same gadget, every
\* write having succeeded, returns each of the eight fields with the value
\* written.
C24_AllGadgetAttrsRoundTrip ==
  [][ (/\ Called("usbg_get_gadget_attrs") /\ last'.env.faults = EmptyFn
       /\ last.op = "usbg_set_gadget_attrs" /\ last.obj = last'.obj
       /\ last.env.faults = EmptyFn) =>
        \A i \in 1..Len(GadgetAttrs) :
           last'.ptr[GadgetAttrs[i].field] = last.name[GadgetAttrs[i].field] ]_vars

\* C25: a load of a store in which the UDC file of a gadget holds no byte, as
\* usbg_disable_gadget leaves it, succeeds and has the gadget in its tree,
\* bound to no controller; so a usbg_disable_gadget followed by a reload of
\* the store does not fail.
C25_LoadAfterDisable ==
  [][ (Called("usbg_init") /\ UdcFile(G1) \in DOMAIN fs.files
         /\ fs.files[UdcFile(G1)] = <<>>) =>
        /\ last'.status = "USBG_SUCCESS"
        /\ G1 \in Elements(List(mem', HeadG))
        /\ mem'.node[G1].udc = <<>> ]_vars

\* C26: when usbg_enable_gadget or usbg_disable_gadget has returned, the
\* gadget's udc field in memory is the text the UDC file of the store holds,
\* also when the write of the file failed.
C26_MemoryEqualsStore ==
  [][ ((Called("usbg_enable_gadget") \/ Called("usbg_disable_gadget")) /\ ~hung') =>
        mem'.node[last'.obj].udc = UdcField(fs', last'.obj) ]_vars

====
